---- MODULE Spec2Model ----
(***************************************************************************)
(* Model of the request pipeline of src/index.ts (omiai): the fallback     *)
(* executor, the planner call, the augmentation stages (web search, tool   *)
(* sub-run, reasoning sub-run, multi-model cross-check) and the final      *)
(* generation.                                                             *)
(*                                                                         *)
(* src/index.ts holds two variants of the module: lines 1-633 (variant 1)  *)
(* and lines 635-1274 (variant 2).  The variable `variant` says which one  *)
(* the instance runs; every definition that differs between the two takes  *)
(* the variant as a parameter.                                             *)
(*                                                                         *)
(* Strings are modelled as sequences of tokens: concatenation is \o, the   *)
(* empty string is << >>, and a string is truthy iff it is not empty.      *)
(*                                                                         *)
(* Specifications: Spec (one request, every combination of stages),        *)
(* FallbackSpec (fallback on its own), ToolSpec (one request whose tool    *)
(* sub-run executes tools), ReuseSpec (several requests on one instance),  *)
(* WebSpec (one request, any answer of the web search), ExtractSpec (the   *)
(* reasoning extraction on its own), ResolveSpec (the resolution of file   *)
(* references on its own), InputSpec (the input of a stage's call on its   *)
(* own), SelectSpec (one request, any registry model selected),              *)
(* ToolSetSpec (the tool set of a request on its own) and LiveSpec (one    *)
(* request in which every pending remote call settles).                    *)
(***************************************************************************)
EXTENDS Integers, Sequences, FiniteSets, TLC

VARIABLES
  variant,         \* which variant of src/index.ts the instance is
  params,          \* the GenerateParams of the request (caller flags)
  prompt,          \* the conversation as generate received it
  prompts,         \* the working conversation of generate
  preConfigModel,  \* the planner's decision
  pc,              \* position of generate: the remote call it awaits
  fb,              \* the state of the running fallback(...) call
  calls,           \* every remote call issued, in issue order
  multi,           \* status of each multi-model call (Promise.allSettled)
  reasoningText,   \* generate's reasoningText
  outcome,         \* how generate ended, and with which error
  toolUsed,        \* generate's toolUsed
  genFiles,        \* generate's genFiles
  steps,           \* the steps of the running tool sub-run attempt
  toolLog,         \* every tool execution of the request, in order
  failed,          \* the calls of the sequential stages that rejected
  result,          \* the object generate returned
  request,         \* the number of generate calls made on the instance
  callerArray,     \* the array the caller passed as prompt, as it is now
  searchResult,    \* generate's searchResult: the results the search returned
  given,           \* the input of a function applied on its own
  answer           \* its result

vars == <<variant, params, prompt, prompts, preConfigModel, pc, fb, calls,
          multi, reasoningText, outcome, toolUsed, genFiles, steps, toolLog,
          failed, result, request, callerArray, searchResult, given, answer>>

----------------------------------------------------------------------------
(* Bounds of the model *)

\* longest list of substitutes given to fallback in FallbackSpec
MaxItems == 3

\* the number of turns an array conversation holds before its last turn
NumHistory == 1

\* the most tool executions of one request in ToolSpec
MaxToolCalls == 2

\* the most requests made on one instance in ReuseSpec
MaxRequests == 2

\* the longest raw reasoning text in ExtractSpec, in tokens
MaxRaw == 6

\* the most parts of the last turn in ResolveSpec
MaxParts == 3

\* the most results the web search returns in WebSpec
MaxResults == 4

\* the most tools the caller supplies in ToolSetSpec
MaxCallerTools == 3

----------------------------------------------------------------------------
(* fallback (src/index.ts 111-124) *)

Undefined == "undefined"

\* the substitutes a caller of fallback may pass in FallbackSpec
Substitutes == {"m1", "m2"}

\* what one attempt of genFunc can produce: a value or an error
Values == {"v1", "v2"}
Errors == {"e1", "e2"}

\* let index = -1 (line 112): nothing attempted yet
fallbackInit(item) ==
  [item |-> item, index |-> -1, tried |-> << >>, status |-> "pending",
   resp |-> Undefined, error |-> Undefined]

\* the argument of the next genFunc call (line 115): undefined on the first
\* attempt, then { [key]: item[index] }
fallbackArg(f) ==
  IF f.index >= 0 THEN f.item[f.index + 1] ELSE Undefined

\* mutant: a failed attempt does not move on to the next substitute's turn
\* in order, it skips one
fallbackCatchSkipping(f, arg, err) ==
  LET index == f.index + 2 IN
  IF index >= Len(f.item)
  THEN [f EXCEPT !.index = index, !.status = "thrown", !.error = err,
                 !.tried = Append(f.tried, [arg |-> arg, ok |-> FALSE, out |-> err])]
  ELSE [f EXCEPT !.index = index,
                 !.tried = Append(f.tried, [arg |-> arg, ok |-> FALSE, out |-> err])]

\* mutant: when the substitutes are exhausted the first error is thrown
fallbackCatchFirstError(f, arg, err) ==
  LET index == f.index + 1
      tried == Append(f.tried, [arg |-> arg, ok |-> FALSE, out |-> err]) IN
  IF index >= Len(f.item)
  THEN [f EXCEPT !.index = index, !.status = "thrown", !.error = tried[1].out,
                 !.tried = tried]
  ELSE [f EXCEPT !.index = index, !.tried = tried]

\* mutant: the first failure is followed by a second attempt with the same
\* argument before the substitutes get their turn
fallbackCatchRetryPrimary(f, arg, err) ==
  LET index == f.index + 1 IN
  IF f.tried = << >>
  THEN [f EXCEPT !.tried = Append(f.tried, [arg |-> arg, ok |-> FALSE, out |-> err])]
  ELSE IF index >= Len(f.item)
  THEN [f EXCEPT !.index = index, !.status = "thrown", !.error = err,
                 !.tried = Append(f.tried, [arg |-> arg, ok |-> FALSE, out |-> err])]
  ELSE [f EXCEPT !.index = index,
                 !.tried = Append(f.tried, [arg |-> arg, ok |-> FALSE, out |-> err])]

\* the catch block (lines 117-122): index++, rethrow when index >= item.length
fallbackCatch(f, arg, err) ==
  LET index == f.index + 1 IN
  IF index >= Len(f.item)
  THEN [f EXCEPT !.index = index, !.status = "thrown", !.error = err,
                 !.tried = Append(f.tried, [arg |-> arg, ok |-> FALSE, out |-> err])]
  ELSE [f EXCEPT !.index = index,
                 !.tried = Append(f.tried, [arg |-> arg, ok |-> FALSE, out |-> err])]

\* one iteration of the do-while loop (lines 113-123): genFunc is called
\* with fallbackArg(f) and settles with (ok, out)
fallback(f, ok, out) ==
  LET arg == fallbackArg(f) IN
  IF ok
  THEN [f EXCEPT !.status = "returned", !.resp = out,
                 !.tried = Append(f.tried, [arg |-> arg, ok |-> TRUE, out |-> out])]
  ELSE fallbackCatch(f, arg, out)

----------------------------------------------------------------------------
(* The model registry and the providers (src/index.ts 214-292, 801-909) *)

\* Object.keys(modelList), in key order
modelList(v) ==
  IF v = 1
  THEN <<"gemini-1.5-flash", "gpt-4o", "claude-3-5-sonnet-latest",
         "llama-3.3-70b-specdec">>
  ELSE <<"gemini-1.5-flash-8b", "gemini-1.5-flash", "gpt-4o",
         "claude-3-5-sonnet-latest", "llama-3.3-70b-specdec">>

modelKeys(v) == {modelList(v)[i] : i \in 1..Len(modelList(v))}

\* modelList[id].fallback
modelFallback(v, id) ==
  IF v = 2 /\ id = "llama-3.3-70b-specdec" THEN "gemini-1.5-flash-8b" ELSE "null"

\* modelList[id].modelProvider: the provider's model, named by its model id
modelProvider(v, id) == id

\* a model id the planner can return that is no key of the registry
UnknownModelID == "unknown-model"

----------------------------------------------------------------------------
(* Conversations (src/index.ts 23-32) *)

Str(text) == [isString |-> TRUE, text |-> text, parts |-> << >>]
Parts(parts) == [isString |-> FALSE, text |-> << >>, parts |-> parts]
TextPart(data) == [type |-> "text", data |-> data, mimeType |-> Undefined]
ImagePart(data) == [type |-> "image", data |-> data, mimeType |-> "image/png"]
FilePart(data) == [type |-> "file", data |-> data, mimeType |-> "application/pdf"]
Turn(role, content) == [role |-> role, content |-> content]

\* JavaScript truthiness of a string
Truthy(text) == Len(text) > 0

\* Array.prototype.splice(start, 0, turn): insert before 0-based index start
splice(ps, start, turn) ==
  LET at == IF start > Len(ps) THEN Len(ps) ELSE start IN
  SubSeq(ps, 1, at) \o <<turn>> \o SubSeq(ps, at + 1, Len(ps))

\* lastPromptContent (line 312), read once from the caller's conversation
lastPromptContent(pr) == pr[Len(pr)].content

\* latestTextPrompt (line 427): the string content, or the data of the first
\* text part (undefined, modelled as the empty string, when there is none)
latestTextPrompt(pr) ==
  LET c == lastPromptContent(pr) IN
  IF c.isString THEN c.text
  ELSE LET idx == {i \in 1..Len(c.parts) : c.parts[i].type = "text"} IN
       IF idx = {} THEN << >>
       ELSE c.parts[CHOOSE i \in idx : \A j \in idx : i <= j].data

\* an undefined string-valued property
UndefinedStr == <<Undefined>>

\* mutant: removeMedia drops the image parts only
messageMapKeepingFiles(ps, removeMedia) ==
  LET part(c) ==
        [type |-> c.type,
         image |-> IF c.type = "image" THEN c.data ELSE UndefinedStr,
         text |-> IF c.type = "text" THEN c.data ELSE UndefinedStr,
         data |-> IF c.type = "file" THEN c.data ELSE UndefinedStr,
         mimeType |-> IF c.type # "text" THEN c.mimeType ELSE Undefined]
      keep(c) == IF removeMedia THEN c.type # "image" ELSE TRUE
      content(m) ==
        IF m.isString THEN m
        ELSE Parts(SelectSeq([i \in 1..Len(m.parts) |-> part(m.parts[i])], keep))
  IN [i \in 1..Len(ps) |-> [content |-> content(ps[i].content), role |-> ps[i].role]]

\* messageMap (lines 91-109): a string content is kept; each part of an array
\* content is rewritten to the SDK's shape, and removeMedia drops the image
\* and file parts
messageMap(ps, removeMedia) ==
  LET part(c) ==
        [type |-> c.type,
         image |-> IF c.type = "image" THEN c.data ELSE UndefinedStr,
         text |-> IF c.type = "text" THEN c.data ELSE UndefinedStr,
         data |-> IF c.type = "file" THEN c.data ELSE UndefinedStr,
         mimeType |-> IF c.type # "text" THEN c.mimeType ELSE Undefined]
      keep(c) == IF removeMedia THEN c.type \notin {"image", "file"} ELSE TRUE
      content(m) ==
        IF m.isString THEN m
        ELSE Parts(SelectSeq([i \in 1..Len(m.parts) |-> part(m.parts[i])], keep))
  IN [i \in 1..Len(ps) |-> [content |-> content(ps[i].content), role |-> ps[i].role]]

----------------------------------------------------------------------------
(* File references and the built-in tools (src/index.ts 319-418, 949-1039) *)

\* a URL: the references of generate are RefHost followed by an index
RefHost == "https://onellmref.com"
Url(host, path) == [host |-> host, path |-> path]
NoUrl == Url("", 0)
Ref(i) == Url(RefHost, i)

\* latestPromptFiles (lines 319-322): the non-text parts of the last turn,
\* each with the reference of its 0-based position among them
latestPromptFiles(pr) ==
  LET c == lastPromptContent(pr)
      files == IF c.isString THEN << >>
               ELSE SelectSeq(c.parts, LAMBDA f : f.type # "text")
  IN [i \in 1..Len(files) |->
        [ref |-> Ref(i - 1), type |-> files[i].type, data |-> files[i].data,
         mimeType |-> files[i].mimeType]]

\* what a media tool hands to the capability: the data of a file or a URL
PassData(data) == [kind |-> "data", data |-> data, url |-> NoUrl]
PassUrl(url) == [kind |-> "url", data |-> << >>, url |-> url]

\* mutant: a reference resolves to the data of the first file
resolveUrlFirst(files, url) ==
  IF url.host = RefHost /\ Len(files) > 0 /\ Truthy(files[1].data)
  THEN PassData(files[1].data)
  ELSE PassUrl(url)

\* lines 362, 376, 401:
\*   url.includes("https://onellmref.com")
\*     ? latestPromptFiles.find((f) => f.ref == url)?.data || url : url
resolveUrl(files, url) ==
  IF url.host = RefHost
  THEN LET found == {i \in 1..Len(files) : files[i].ref = url} IN
       IF found # {} /\ Truthy(files[CHOOSE i \in found : \A j \in found : i <= j].data)
       THEN PassData(files[CHOOSE i \in found : \A j \in found : i <= j].data)
       ELSE PassUrl(url)
  ELSE PassUrl(url)

\* the binary payload a generating capability answers with (image.blob())
Blob(kind) == <<"blob", kind>>

MediaTools == {"ai_scraper", "ocr", "speech_to_text"}
GeneratingTools == {"ai_image_generation", "text_to_speech"}

\* the keys of the tool set (lines 326-418; 949-1039 has web_search in place
\* of current_datetime)
toolNames(v) ==
  (IF v = 1 THEN {"current_datetime"} ELSE {"web_search"})
  \cup MediaTools \cup GeneratingTools

\* a tool set is an object: its keys in insertion order, each with the
\* definition it holds, which is a built-in's or the caller's.  The built-in
\* tools in the order of the object literal (lines 337-417; 957-1038 has
\* web_search first and no current_datetime)
builtInTools(v) ==
  LET names == <<IF v = 1 THEN "current_datetime" ELSE "web_search",
                 "ai_scraper", "ocr", "ai_image_generation", "speech_to_text",
                 "text_to_speech">> IN
  [i \in 1..Len(names) |-> [name |-> names[i], origin |-> "built-in"]]

\* the properties of an object literal, own or spread, in source order: a
\* key the object has keeps its place and gets the new definition, a new key
\* goes last
RECURSIVE defineAll(_, _)
defineAll(obj, es) ==
  IF es = << >> THEN obj
  ELSE LET e == Head(es)
           defined == IF \E i \in 1..Len(obj) : obj[i].name = e.name
                      THEN [i \in 1..Len(obj) |->
                              IF obj[i].name = e.name THEN e ELSE obj[i]]
                      ELSE Append(obj, e) IN
       defineAll(defined, Tail(es))

\* mutant: the caller's tools are spread after the built-in ones
allToolsCallerLast(v, tools) ==
  defineAll(builtInTools(v), IF v = 1 THEN tools ELSE << >>)

\* the tool set of a request (lines 326-418): {...tools, <built-ins>}; in
\* variant 2 generate takes no tools and the set is the literal (956-1039)
allTools(v, tools) ==
  defineAll(IF v = 1 THEN tools ELSE << >>, builtInTools(v))

\* a tool call of the sub-run's model
ToolCall(name, url, text) ==
  [toolName |-> name, args |-> [url |-> url, text |-> text]]

\* what execute hands to the capability behind a media tool
toolPassed(files, call) ==
  IF call.toolName \in MediaTools THEN resolveUrl(files, call.args.url)
  ELSE PassUrl(NoUrl)

\* what execute returns (lines 351, 365, 379, 391, 403, 415)
toolResult(v, call) ==
  CASE call.toolName = "ai_image_generation" ->
         IF v = 1 THEN <<"image generated and added to files">>
         ELSE <<"image generated">>
    [] call.toolName = "text_to_speech" -> <<"audio generated">>
    [] call.toolName \in MediaTools -> <<"context">>
    [] call.toolName = "current_datetime" -> <<"now">>
    [] call.toolName = "web_search" -> <<"results">>

\* mutant: text_to_speech leaves its audio out of the files
toolFilesImageOnly(call) ==
  IF call.toolName = "ai_image_generation"
  THEN <<[type |-> "image", data |-> Blob("image"), mimeType |-> "image/png"]>>
  ELSE << >>

\* what execute pushes on genFiles (lines 390, 414)
toolFiles(call) ==
  CASE call.toolName = "ai_image_generation" ->
         <<[type |-> "image", data |-> Blob("image"), mimeType |-> "image/png"]>>
    [] call.toolName = "text_to_speech" ->
         <<[type |-> "file", data |-> Blob("audio"), mimeType |-> "audio/mpeg"]>>
    [] OTHER -> << >>

\* lines 486-494: the calls of every step with their results, flattened
RECURSIVE allToolCalls(_)
allToolCalls(ss) ==
  IF ss = << >> THEN << >> ELSE Head(ss) \o allToolCalls(Tail(ss))

\* lines 496-503 and 437-445: the records pushed on toolUsed; the result of
\* the web_search record is the object searchResult holds
toolCallRecord(t) ==
  [name |-> t.toolName, result |-> t.result, type |-> "tool-call", args |-> t.args]
webSearchRecord(query) ==
  [name |-> "web_search", result |-> <<"searchResult">>,
   type |-> "tool-context-use", args |-> [url |-> NoUrl, text |-> query]]

----------------------------------------------------------------------------
(* The caller's inputs *)

\* an optional boolean parameter of generate
Flag == {"true", "false", Undefined}

\* the i-th earlier turn of a caller's conversation
HistoryTurn(i) ==
  Turn(IF i % 2 = 1 THEN "user" ELSE "assistant", Str([j \in 1..i |-> "h"]))

\* the last turn of a conversation given as an array
LastTurns ==
  { Turn("user", Parts(<<TextPart(<<"q">>), ImagePart(<<"img">>)>>)),
    Turn("user", Parts(<<ImagePart(<<"img">>)>>)) }

\* prompts (line 311): a string prompt becomes one user turn; an array is
\* taken as it is
ArrayPrompts ==
  { [i \in 1..NumHistory |-> HistoryTurn(i)] \o <<last>> : last \in LastTurns }
PromptInputs ==
  { <<Turn("user", Str(<<"q">>))>> } \cup ArrayPrompts

\* the caller's parameters: the three stage flags, multiLLM, stream and
\* whether a schema is given.  The stage conditions read neither multiLLM,
\* stream nor schema, so the requests that set one of these leave the three
\* stage flags to the planner: every combination of stages still runs with
\* them, through the planner's decision.
ParamInputs ==
  { p \in [web : Flag, reasoning : Flag, autoTool : Flag,
           multiLLM : BOOLEAN, stream : BOOLEAN, schema : BOOLEAN] :
      /\ (p.multiLLM \/ p.stream \/ p.schema) => /\ p.web = Undefined
                                                 /\ p.reasoning = Undefined
                                                 /\ p.autoTool = Undefined
      /\ p.schema => ~p.multiLLM }

\* the requests: the multi-model requests come with the array prompt that has
\* both a text and an image
RequestInputs ==
  { r \in ParamInputs \X PromptInputs :
      r[1].multiLLM =>
        lastPromptContent(r[2]) = Parts(<<TextPart(<<"q">>), ImagePart(<<"img">>)>>) }

\* what the planner's generateObject can return (preConfigSchema, 126-135)
Decisions(v) ==
  [model : {"gpt-4o", "llama-3.3-70b-specdec", UnknownModelID},
   reasoning : BOOLEAN, web_search : BOOLEAN, use_tool : BOOLEAN]

NoParams ==
  [web |-> Undefined, reasoning |-> Undefined, autoTool |-> Undefined,
   multiLLM |-> FALSE, stream |-> FALSE, schema |-> FALSE]
NoDecision ==
  [model |-> Undefined, reasoning |-> FALSE, web_search |-> FALSE,
   use_tool |-> FALSE]

----------------------------------------------------------------------------
(* The stages of generate (src/index.ts 420-590, 1041-1231) *)

\* modelConfig = modelList[selectedModelID] (line 425): undefined for an id
\* that is no key
modelConfigDefined(v, d) == d.model \in modelKeys(v)

\* the model each fallback-guarded step calls first
plannerModel(v) == modelProvider(v, "llama-3.3-70b-specdec")
toolModel(v) == IF v = 1 THEN "gpt-4o-mini" ELSE modelProvider(v, "gpt-4o")
reasoningModel(v) == IF v = 1 THEN "o3-mini" ELSE "deepseek-r1-distill-llama-70b"

\* line 577: variant 1 keeps a reasoning-augmented prompt away from llama-3.3
finalModel(v, d, rt) ==
  IF v = 1 /\ Truthy(rt) /\ d.model = "llama-3.3-70b-specdec"
  THEN "gemini-1.5-flash"
  ELSE modelProvider(v, d.model)

\* the substitutes each fallback-guarded step passes to fallback
plannerItems(v) == <<"gemini-1.5-flash-8b">>
toolItems(v) ==
  IF v = 1 THEN <<"llama-3.3-70b-versatile">>
  ELSE <<"llama-3.3-70b-versatile", "gpt-4o-mini">>
reasoningItems(v) ==
  IF v = 1 THEN <<"deepseek-ai/DeepSeek-R1">>
  ELSE <<"deepseek-ai/DeepSeek-R1", "deepseek-reasoner">>

\* mutant: the substitute of the final generation is always gpt-4o
finalItemsAlwaysGpt4o(v, d) == <<"gpt-4o">>

\* lines 568-574
finalItems(v, d) ==
  << IF modelFallback(v, d.model) # "null"
        /\ modelFallback(v, d.model) \in modelKeys(v)
     THEN modelProvider(v, modelFallback(v, d.model))
     ELSE IF d.model = "gpt-4o" THEN "gemini-1.5-flash" ELSE "gpt-4o" >>

stageModel(v, s, d, rt) ==
  CASE s = "planner" -> plannerModel(v)
    [] s = "tool" -> toolModel(v)
    [] s = "reasoning" -> reasoningModel(v)
    [] s = "final" -> finalModel(v, d, rt)

stageItems(v, s, d) ==
  CASE s = "planner" -> plannerItems(v)
    [] s = "tool" -> toolItems(v)
    [] s = "reasoning" -> reasoningItems(v)
    [] s = "final" -> finalItems(v, d)

\* the model an attempt runs against: ...args overrides model (lines 163,
\* 480, 526, 588)
attemptModel(v, s, d, rt, f) ==
  IF fallbackArg(f) = Undefined THEN stageModel(v, s, d, rt) ELSE fallbackArg(f)

\* mutant: contextTool.web = false does not disable the search
runWebNoDisable(p, d, pr) ==
  Truthy(latestTextPrompt(pr)) /\ (p.web = "true" \/ d.web_search)

\* mutant: the search runs whether or not the latest turn has text
runWebAnyPrompt(p, d, pr) ==
  (p.web = "true" \/ d.web_search) /\ p.web # "false"

\* lines 430-431
runWeb(p, d, pr) ==
  /\ Truthy(latestTextPrompt(pr))
  /\ (p.web = "true" \/ d.web_search) /\ p.web # "false"

\* mutant: the tool sub-run runs whenever autoTool is not turned off
runToolAutoOnly(p, d) ==
  IF p.autoTool = Undefined THEN TRUE ELSE p.autoTool = "true"

\* line 302 (autoTool = true by default) and line 465
runTool(p, d) ==
  LET autoTool == IF p.autoTool = Undefined THEN TRUE ELSE p.autoTool = "true" IN
  d.use_tool /\ autoTool

\* mutant: the planner's reasoning flag wins over reasoning = false
runReasoningPlannerWins(p, d) == p.reasoning = "true" \/ d.reasoning

\* line 513
runReasoning(p, d) ==
  (p.reasoning = "true" \/ d.reasoning) /\ p.reasoning # "false"

\* line 544 (variant 1), line 1185 (variant 2)
runMulti(v, p) == IF v = 1 THEN p.multiLLM ELSE p.multiLLM /\ ~p.stream

\* the stages in program order
Stages == <<"planner", "web", "tool", "reasoning", "multi", "final">>
stageIndex(s) == CHOOSE i \in 1..Len(Stages) : Stages[i] = s

runStage(s, v, p, d, pr) ==
  CASE s = "web" -> runWeb(p, d, pr)
    [] s = "tool" -> runTool(p, d)
    [] s = "reasoning" -> runReasoning(p, d)
    [] s = "multi" -> runMulti(v, p)
    [] s = "final" -> TRUE

\* mutant: the reasoning sub-run is placed before the tool sub-run
nextStageReasoningFirst(s, v, p, d, pr) ==
  LET order == <<"planner", "web", "reasoning", "tool", "multi", "final">>
      at == CHOOSE i \in 1..Len(order) : order[i] = s
      later == {i \in (at + 1)..Len(order) : runStage(order[i], v, p, d, pr)}
  IN order[CHOOSE i \in later : \A j \in later : i <= j]

\* the stage generate reaches next when stage s is over: the first later
\* stage whose condition holds
nextStage(s, v, p, d, pr) ==
  LET later == {i \in (stageIndex(s) + 1)..Len(Stages) :
                   runStage(Stages[i], v, p, d, pr)}
  IN Stages[CHOOSE i \in later : \A j \in later : i <= j]

\* searchResult (line 428) before the search has returned
NoSearch == << >>

\* the i-th result of a search: its fields hold i tokens each, and the
\* content can be missing
SearchItem(i, hasContent) ==
  [title |-> [j \in 1..i |-> "t"],
   content |-> IF hasContent THEN [j \in 1..i |-> "c"] ELSE << >>,
   description |-> [j \in 1..i |-> "d"],
   snippets |-> [j \in 1..i |-> "s"],
   url |-> [j \in 1..i |-> "u"]]

\* the answers of the search with at most n results
SearchAnswers(n) ==
  UNION { { [i \in 1..k |-> SearchItem(i, h[i])] : h \in [1..k -> BOOLEAN] } :
          k \in 0..n }

\* lines 448-453: what is kept of a result
webSearchResultItem(c) ==
  [title |-> c.title,
   content |-> IF Truthy(c.content) THEN c.content ELSE c.description,
   snippets |-> c.snippets,
   url |-> c.url]

\* mutant: every result goes into the turn
webSearchResultMapAll(results) ==
  [i \in 1..Len(results) |-> webSearchResultItem(results[i])]

\* lines 447-454: searchResult.results.map(...).slice(0, 3)
webSearchResultMap(results) ==
  LET mapped == [i \in 1..Len(results) |-> webSearchResultItem(results[i])] IN
  SubSeq(mapped, 1, IF Len(mapped) < 3 THEN Len(mapped) ELSE 3)

\* JSON.stringify of the kept results (line 458), as tokens
RECURSIVE stringifyItems(_)
stringifyItems(items) ==
  IF items = << >> THEN << >>
  ELSE <<"{">> \o Head(items).title \o <<",">> \o Head(items).content
       \o <<",">> \o Head(items).snippets \o <<",">> \o Head(items).url
       \o <<"}">> \o stringifyItems(Tail(items))
stringify(items) == <<"[">> \o stringifyItems(items) \o <<"]">>

\* the synthetic turns
webTurn(v, results) ==
  LET text == <<"Web search result: ">> \o stringify(webSearchResultMap(results)) IN
  IF v = 1 THEN Turn("user", Str(text))
  ELSE Turn("user", Parts(<<TextPart(text)>>))
toolTurn(v) ==
  IF v = 1 THEN Turn("user", Str(<<"Tool result: ", "toolText">>))
  ELSE Turn("user", Parts(<<TextPart(<<"Tool result: ", "toolText">>)>>))
reasoningTurn(v, rt) ==
  IF v = 1 THEN Turn("user", Str(<<"Context: ">> \o rt))
  ELSE Turn("user", Parts(<<TextPart(<<"Reasoning context: ">> \o rt)>>))
multiTurn(texts) ==
  Turn("user", Parts(<<TextPart(<<"Context from multiple LLMs: ">> \o texts)>>))

\* where each stage splices its turn in (lines 456, 505, 536, 560 and
\* 1096, 1146, 1177, 1201)
webAt(ps) == Len(ps) - 1
toolAt(v, ps) == IF v = 1 THEN Len(ps) ELSE Len(ps) - 1
reasoningAt(ps) == Len(ps) - 1
multiAt(ps) == Len(ps) - 1

\* mutant: rejected calls are kept in the multi-model results
multiLLMResultsAll(v, st) == modelList(v)

\* lines 558 and 562: the texts of the fulfilled calls, in the order of
\* Object.keys(modelList); the text of a model's answer is named by its key
multiLLMResults(v, st) ==
  SelectSeq(modelList(v), LAMBDA m : st[m] = "fulfilled")

\* mutant: the final generation never streams
generateFunctionNeverStreams(p) == "generateText"

\* line 542: generateFunction = stream ? streamText : generateText
generateFunction(p) == IF p.stream THEN "streamText" ELSE "generateText"

\* the SDK function each stage calls (lines 157, 432, 467, 516, 547, 576)
stageFunction(s, p) ==
  CASE s = "planner" -> "generateObject"
    [] s = "web" -> "jigsaw.web.search"
    [] s \in {"tool", "reasoning", "multi"} -> "generateText"
    [] s = "final" -> generateFunction(p)

\* what a remote call is given: a prompt text with file references, mapped
\* messages, or (the planner) the stringified last turn
Input(text, files, messages, turns) ==
  [prompt |-> text, files |-> files, messages |-> messages, turns |-> turns]

\* lines 153, 433, 469-472, 519, 550, 579: pr is the conversation generate
\* received, ps the working conversation when the call is issued
stageInput(s, pr, ps) ==
  CASE s = "planner" -> Input(<<"Prompt: ">>, << >>, << >>, <<ps[Len(ps)]>>)
    [] s = "web" -> Input(latestTextPrompt(pr), << >>, << >>, << >>)
    [] s = "tool" ->
         IF Truthy(latestTextPrompt(pr))
         THEN Input(latestTextPrompt(pr) \o <<"files: ">>,
                    [i \in 1..Len(latestPromptFiles(pr)) |-> latestPromptFiles(pr)[i].ref],
                    << >>, << >>)
         ELSE Input(latestTextPrompt(pr), << >>, << >>, << >>)
    [] s \in {"reasoning", "multi"} -> Input(<< >>, << >>, messageMap(ps, TRUE), << >>)
    [] s = "final" -> Input(<< >>, << >>, messageMap(ps, FALSE), << >>)

\* the other arguments of a remote call: the system prompt, the schema, the
\* tools and the sampling parameters, each named by the value that is passed
Options(system, schema, tools, sampling) ==
  [system |-> system, schema |-> schema, tools |-> tools, sampling |-> sampling]

\* lines 158-163, 432-435, 467-480, 518-526, 547-553, 576-588: the planner
\* passes its own schema and temperature 0; the sub-runs and the final
\* generation pass the caller's system prompt and temperature, topK and topP;
\* the tool sub-run passes the tool set, the final generation the caller's
\* schema when there is one
stageOptions(s, p) ==
  CASE s = "planner" -> Options("none", "preConfigSchema", "none", "temperature: 0")
    [] s = "web" -> Options("none", "none", "none", "none")
    [] s = "tool" -> Options("system", "none", "allTools", "temperature, topK, topP")
    [] s \in {"reasoning", "multi"} ->
         Options("system", "none", "none", "temperature, topK, topP")
    [] s = "final" ->
         Options("system", IF p.schema THEN "schema" ELSE "none", "none",
                 "temperature, topK, topP")

----------------------------------------------------------------------------
(* The reasoning text (src/index.ts 530-534, 1171-1175) *)

ThinkOpen == "<think>"
ThinkClose == "</think>"
Space == " "

\* String.prototype.includes, for a one-token needle
includes(s, tok) == \E i \in 1..Len(s) : s[i] = tok

\* String.prototype.split, for a one-token separator: the segments between
\* the occurrences of the separator
RECURSIVE split(_, _)
split(s, tok) ==
  IF ~includes(s, tok) THEN <<s>>
  ELSE LET i == CHOOSE k \in 1..Len(s) :
                  s[k] = tok /\ \A j \in 1..(k - 1) : s[j] # tok IN
       <<SubSeq(s, 1, i - 1)>> \o split(SubSeq(s, i + 1, Len(s)), tok)

\* String.prototype.trim
trim(s) ==
  LET ns == {i \in 1..Len(s) : s[i] # Space} IN
  IF ns = {} THEN << >>
  ELSE SubSeq(s, CHOOSE i \in ns : \A j \in ns : i <= j,
                 CHOOSE i \in ns : \A j \in ns : i >= j)

\* line 530: reasoningResult?.reasoning || reasoningResult?.text
rawReasoning(res) == IF Truthy(res.reasoning) THEN res.reasoning ELSE res.text

\* mutant: the text between the tags is kept untrimmed
extractReasoningUntrimmed(raw) ==
  IF includes(raw, ThinkOpen)
  THEN split(split(raw, ThinkOpen)[2], ThinkClose)[1]
  ELSE raw

\* lines 532-534:
\*   if (reasoningText?.includes("<think>"))
\*     reasoningText = reasoningText.split("<think>")[1].split("</think>")[0]?.trim()
extractReasoning(raw) ==
  IF includes(raw, ThinkOpen)
  THEN trim(split(split(raw, ThinkOpen)[2], ThinkClose)[1])
  ELSE raw

\* what a reasoning attempt can answer with
ReasoningResults ==
  { [reasoning |-> <<"r">>, text |-> <<"answer">>],
    [reasoning |-> << >>, text |-> <<ThinkOpen, Space, "r", ThinkClose, "answer">>],
    [reasoning |-> << >>, text |-> <<ThinkOpen, Space, ThinkClose, "answer">>] }

----------------------------------------------------------------------------
(* Errors and results *)

NoError == [kind |-> "none", stage |-> "", model |-> ""]

\* the error a failed remote call of stage s against model m rejects with
CallError(s, m) == [kind |-> "CallError", stage |-> s, model |-> m]

\* modelConfig.id read on an undefined modelConfig (line 571)
TypeError == [kind |-> "TypeError", stage |-> "final", model |-> ""]

\* the planner call resolved without an object: variant 1 throws "Failed to
\* decide preConfigModel" (lines 168-170), variant 2 reads .model of
\* undefined (line 1064)
NoDecisionError(v) ==
  [kind |-> IF v = 1 THEN "Error" ELSE "TypeError", stage |-> "planner",
   model |-> ""]

NoOutcome == [status |-> "none", error |-> NoError]
NoFallback == [fallbackInit(<< >>) EXCEPT !.status = "none"]
NoMulti == << >>
NoArray == << >>
NoValue == << >>

\* a remote call, as logged in calls: the stage, the model, the SDK function,
\* what the call is given and its other arguments
Call(s, m, fn, input, options) ==
  [stage |-> s, model |-> m, fn |-> fn, input |-> input, options |-> options]

\* the call stage s issues against model m for a request with parameters p
\* that received pr and whose working conversation is ps
issue(s, m, p, pr, ps) ==
  Call(s, m, stageFunction(s, p), stageInput(s, pr, ps), stageOptions(s, p))

NoResult ==
  [returned |-> FALSE, toolUsed |-> << >>, files |-> << >>,
   hasReasoningText |-> FALSE, reasoningText |-> << >>,
   object |-> FALSE, partialObjectStream |-> FALSE]

\* mutant: object is set whenever a schema is given
generateResultObjectAlways(p, tu, gf, rt) ==
  [returned |-> TRUE, toolUsed |-> tu, files |-> gf,
   hasReasoningText |-> Truthy(rt),
   reasoningText |-> IF Truthy(rt) THEN rt ELSE << >>,
   object |-> p.schema,
   partialObjectStream |-> IF p.schema THEN p.stream ELSE FALSE]

\* lines 592-608: the response of the final call with toolUsed, files,
\* reasoningText (when truthy) and the structured output attached
generateResult(p, tu, gf, rt) ==
  [returned |-> TRUE, toolUsed |-> tu, files |-> gf,
   hasReasoningText |-> Truthy(rt),
   reasoningText |-> IF Truthy(rt) THEN rt ELSE << >>,
   object |-> IF p.schema THEN ~p.stream ELSE FALSE,
   partialObjectStream |-> IF p.schema THEN p.stream ELSE FALSE]

----------------------------------------------------------------------------
(* generate, from one suspend point to the next *)

\* generate reaches stage s with decision d, reasoning text rt and working
\* conversation ps, and issues the stage's first remote call(s); reaching the
\* final stage evaluates the substitutes (lines 568-574), which throws when
\* modelConfig is undefined.  The result is the new position, fallback state,
\* call log, multi-model statuses and outcome.
Enter(s, d, rt, ps) ==
  LET here == [pc |-> s, fb |-> NoFallback, calls |-> calls, multi |-> multi,
               outcome |-> outcome] IN
  CASE s = "web" ->
         [here EXCEPT !.calls = Append(calls,
                          issue("web", "jigsaw.web.search", params, prompt, ps))]
    [] s \in {"tool", "reasoning"} ->
         [here EXCEPT !.fb = fallbackInit(stageItems(variant, s, d)),
                      !.calls = Append(calls,
                          issue(s, stageModel(variant, s, d, rt), params, prompt, ps))]
    [] s = "multi" ->
         [here EXCEPT !.multi = [m \in modelKeys(variant) |-> "pending"],
                      !.calls = calls \o [i \in 1..Len(modelList(variant)) |->
                          issue("multi", modelProvider(variant, modelList(variant)[i]),
                                params, prompt, ps)]]
    [] s = "final" /\ modelConfigDefined(variant, d) ->
         [here EXCEPT !.fb = fallbackInit(stageItems(variant, "final", d)),
                      !.calls = Append(calls,
                          issue("final", stageModel(variant, "final", d, rt),
                                params, prompt, ps))]
    [] s = "final" /\ ~modelConfigDefined(variant, d) ->
         [here EXCEPT !.pc = "done",
                      !.outcome = [status |-> "failed", error |-> TypeError]]

\* generate moves to the position Enter computed
Goto(e) ==
  /\ pc' = e.pc
  /\ fb' = e.fb
  /\ calls' = e.calls
  /\ outcome' = e.outcome

\* prompts.splice(...) writes the array prompts refers to: the caller's own
\* array when the caller passed one (line 311)
Write(ps) ==
  /\ prompts' = ps
  /\ callerArray' = IF callerArray # NoArray THEN ps ELSE callerArray

\* mutant: when the planner's candidates are exhausted generate goes on with
\* a default decision
AttemptFailsDefault(s) ==
  LET m == attemptModel(variant, s, preConfigModel, reasoningText, fb)
      f == fallback(fb, FALSE, CallError(s, m))
      d == [model |-> "gpt-4o", reasoning |-> FALSE, web_search |-> FALSE,
            use_tool |-> FALSE] IN
  /\ failed' = Append(failed, calls[Len(calls)])
  /\ steps' = << >>
  /\ IF f.status = "thrown" /\ s = "planner"
     THEN LET e == Enter(nextStage("planner", variant, params, d, prompt), d,
                         reasoningText, prompts) IN
          preConfigModel' = d /\ Goto(e) /\ multi' = e.multi
     ELSE /\ fb' = f
          /\ UNCHANGED <<preConfigModel, multi>>
          /\ IF f.status = "thrown"
             THEN /\ pc' = "done"
                  /\ outcome' = [status |-> "failed", error |-> f.error]
                  /\ calls' = calls
             ELSE /\ pc' = pc
                  /\ outcome' = outcome
                  /\ calls' = Append(calls,
                                issue(s, attemptModel(variant, s, preConfigModel, reasoningText, f),
                                      params, prompt, prompts))
  /\ UNCHANGED <<variant, params, prompt, prompts, reasoningText, toolUsed,
                 genFiles, toolLog, result, request, callerArray, searchResult, given, answer>>

\* mutant: the substitute is given the last turn of the conversation only
AttemptFailsLastTurnOnly(s) ==
  LET m == attemptModel(variant, s, preConfigModel, reasoningText, fb)
      f == fallback(fb, FALSE, CallError(s, m)) IN
  /\ fb' = f
  /\ failed' = Append(failed, calls[Len(calls)])
  /\ steps' = << >>
  /\ IF f.status = "thrown"
     THEN /\ pc' = "done"
          /\ outcome' = [status |-> "failed", error |-> f.error]
          /\ calls' = calls
     ELSE /\ pc' = pc
          /\ outcome' = outcome
          /\ calls' = Append(calls,
                        issue(s, attemptModel(variant, s, preConfigModel, reasoningText, f),
                              params, prompt, <<prompts[Len(prompts)]>>))
  /\ UNCHANGED <<variant, params, prompt, prompts, preConfigModel, multi,
                 reasoningText, toolUsed, genFiles, toolLog, result, request,
                 callerArray, searchResult, given, answer>>

\* an attempt of the fallback-guarded stage s fails: fallback retries with the
\* next substitute, or rethrows and generate fails (catch/rethrow, 609-611)
AttemptFails(s) ==
  LET m == attemptModel(variant, s, preConfigModel, reasoningText, fb)
      f == fallback(fb, FALSE, CallError(s, m)) IN
  /\ fb' = f
  /\ failed' = Append(failed, calls[Len(calls)])
  /\ steps' = << >>
  /\ IF f.status = "thrown"
     THEN /\ pc' = "done"
          /\ outcome' = [status |-> "failed", error |-> f.error]
          /\ calls' = calls
     ELSE /\ pc' = pc
          /\ outcome' = outcome
          /\ calls' = Append(calls,
                        issue(s, attemptModel(variant, s, preConfigModel, reasoningText, f),
                              params, prompt, prompts))
  /\ UNCHANGED <<variant, params, prompt, prompts, preConfigModel, multi,
                 reasoningText, toolUsed, genFiles, toolLog, result, request,
                 callerArray, searchResult, given, answer>>

\* generate is called with parameters p and prompt pr (lines 294-420): the
\* state of the request is set up and the planner's first attempt is issued
Start(p, pr, isArray) ==
  /\ params' = p
  /\ prompt' = pr
  /\ prompts' = pr
  /\ callerArray' = IF isArray THEN pr ELSE NoArray
  /\ request' = request + 1
  /\ preConfigModel' = NoDecision
  /\ multi' = NoMulti
  /\ reasoningText' = << >>
  /\ toolUsed' = << >>
  /\ genFiles' = << >>
  /\ steps' = << >>
  /\ toolLog' = << >>
  /\ failed' = << >>
  /\ result' = NoResult
  /\ searchResult' = NoSearch
  /\ pc' = "planner"
  /\ fb' = fallbackInit(plannerItems(variant))
  /\ calls' = <<issue("planner", plannerModel(variant), p, pr, pr)>>
  /\ outcome' = [status |-> "running", error |-> NoError]
  /\ UNCHANGED <<variant, given, answer>>

Generate ==
  /\ pc = "idle"
  /\ \E r \in RequestInputs : Start(r[1], r[2], r[2] \in ArrayPrompts)

\* a planner attempt returns the decision d (lines 156-172, 1041-1065)
PlannerReturnsWith(d) ==
  /\ pc = "planner"
  /\ preConfigModel' = d
  /\ LET e == Enter(nextStage("planner", variant, params, d, prompt), d,
                    reasoningText, prompts) IN
     Goto(e) /\ multi' = e.multi
  /\ UNCHANGED <<variant, params, prompt, prompts, reasoningText, toolUsed,
                 genFiles, steps, toolLog, failed, result, request,
                 callerArray, searchResult, given, answer>>

\* a planner attempt returns; the planner selects one of three model ids
PlannerReturns == \E d \in Decisions(variant) : PlannerReturnsWith(d)

\* a planner attempt returns, with any registry key as the selected model and
\* the reasoning flag (the search and the tool sub-run are not asked for)
PlannerSelects ==
  \E d \in [model : modelKeys(variant), reasoning : BOOLEAN,
            web_search : {FALSE}, use_tool : {FALSE}] :
    PlannerReturnsWith(d)

\* a planner attempt resolves without an object (lines 166-170, 1062-1064)
PlannerNoObject ==
  /\ pc = "planner"
  /\ fb' = fallback(fb, TRUE, Undefined)
  /\ pc' = "done"
  /\ outcome' = [status |-> "failed", error |-> NoDecisionError(variant)]
  /\ UNCHANGED <<variant, params, prompt, prompts, preConfigModel, calls, multi,
                 reasoningText, toolUsed, genFiles, steps, toolLog, failed,
                 result, request, callerArray, searchResult, given, answer>>

PlannerFails ==
  /\ pc = "planner"
  /\ AttemptFails("planner")

\* mutant: a failed web search is skipped and generate goes on
WebFailsSkipped ==
  /\ pc = "web"
  /\ failed' = Append(failed, calls[Len(calls)])
  /\ LET e == Enter(nextStage("web", variant, params, preConfigModel, prompt),
                    preConfigModel, reasoningText, prompts) IN
     Goto(e) /\ multi' = e.multi
  /\ UNCHANGED <<variant, params, prompt, prompts, preConfigModel,
                 reasoningText, toolUsed, genFiles, steps, toolLog, result,
                 request, callerArray, searchResult, given, answer>>

\* the web search returns the given results (lines 432-460)
WebReturnsWith(results) ==
  /\ pc = "web"
  /\ searchResult' = results
  /\ toolUsed' = Append(toolUsed, webSearchRecord(latestTextPrompt(prompt)))
  /\ LET ps == splice(prompts, webAt(prompts), webTurn(variant, results))
         e == Enter(nextStage("web", variant, params, preConfigModel, prompt),
                    preConfigModel, reasoningText, ps) IN
     Write(ps) /\ Goto(e) /\ multi' = e.multi
  /\ UNCHANGED <<variant, params, prompt, preConfigModel, reasoningText,
                 genFiles, steps, toolLog, failed, result, request, given, answer>>

\* the web search returns; the search answers with one result
WebReturns == WebReturnsWith(<<SearchItem(1, TRUE)>>)

\* the web search returns, with any answer of at most MaxResults results
WebSearchReturns ==
  \E results \in SearchAnswers(MaxResults) : WebReturnsWith(results)

\* the web search throws: generate fails
WebFails ==
  /\ pc = "web"
  /\ pc' = "done"
  /\ failed' = Append(failed, calls[Len(calls)])
  /\ outcome' = [status |-> "failed", error |-> CallError("web", "jigsaw.web.search")]
  /\ UNCHANGED <<variant, params, prompt, prompts, preConfigModel, fb, calls,
                 multi, reasoningText, toolUsed, genFiles, steps, toolLog,
                 result, request, callerArray, searchResult, given, answer>>

\* maxSteps of the tool sub-run (line 476)
maxSteps == 5

\* a URL that is no file reference
ExternalUrl == Url("https://example.com", 0)

\* the tool calls the sub-run's model makes: a tool of each kind, the media
\* tool with a reference it was given or with another URL (the three media
\* tools resolve their URL by the same expression)
ToolCalls(v, files) ==
  { ToolCall(n, NoUrl, <<"text">>) : n \in toolNames(v) \ MediaTools }
  \cup { ToolCall("ocr", u, << >>) :
           u \in {files[i].ref : i \in 1..Len(files)} \cup {ExternalUrl} }

\* the sub-run's model calls a tool, in a new step or along with the calls of
\* the running step, and execute runs (lines 350-416): the capability is
\* called, a generated file is pushed on genFiles, the result goes back to
\* the model
ToolExecutes ==
  /\ pc = "tool"
  /\ Len(toolLog) < MaxToolCalls
  /\ \E call \in ToolCalls(variant, latestPromptFiles(prompt)), newStep \in BOOLEAN :
       /\ steps = << >> => newStep
       /\ newStep => Len(steps) < maxSteps
       /\ LET t == [toolName |-> call.toolName, args |-> call.args,
                    result |-> toolResult(variant, call)] IN
          /\ steps' = IF newStep THEN Append(steps, <<t>>)
                      ELSE [steps EXCEPT ![Len(steps)] = Append(@, t)]
          /\ toolLog' = Append(toolLog,
                          [toolName |-> call.toolName, args |-> call.args,
                           passed |-> toolPassed(latestPromptFiles(prompt), call),
                           result |-> toolResult(variant, call),
                           pushed |-> toolFiles(call)])
          /\ genFiles' = genFiles \o toolFiles(call)
  /\ UNCHANGED <<variant, params, prompt, prompts, preConfigModel, pc, fb,
                 calls, multi, reasoningText, outcome, toolUsed, failed, result,
                 request, callerArray, searchResult, given, answer>>

\* mutant: the records of the tool calls replace what toolUsed held
ToolReturnsReplacing ==
  /\ pc = "tool"
  /\ toolUsed' = [i \in 1..Len(allToolCalls(steps)) |->
                    toolCallRecord(allToolCalls(steps)[i])]
  /\ steps' = << >>
  /\ LET ps == splice(prompts, toolAt(variant, prompts), toolTurn(variant))
         e == Enter(nextStage("tool", variant, params, preConfigModel, prompt),
                    preConfigModel, reasoningText, ps) IN
     Write(ps) /\ Goto(e) /\ multi' = e.multi
  /\ UNCHANGED <<variant, params, prompt, preConfigModel, reasoningText,
                 genFiles, toolLog, failed, result, request, searchResult, given, answer>>

\* an attempt of the tool sub-run returns (lines 484-508)
ToolReturns ==
  /\ pc = "tool"
  /\ toolUsed' = toolUsed \o [i \in 1..Len(allToolCalls(steps)) |->
                                toolCallRecord(allToolCalls(steps)[i])]
  /\ steps' = << >>
  /\ LET ps == splice(prompts, toolAt(variant, prompts), toolTurn(variant))
         e == Enter(nextStage("tool", variant, params, preConfigModel, prompt),
                    preConfigModel, reasoningText, ps) IN
     Write(ps) /\ Goto(e) /\ multi' = e.multi
  /\ UNCHANGED <<variant, params, prompt, preConfigModel, reasoningText,
                 genFiles, toolLog, failed, result, request, searchResult, given, answer>>

ToolFails ==
  /\ pc = "tool"
  /\ AttemptFails("tool")

\* an attempt of the reasoning sub-run returns (lines 530-539)
ReasoningReturns ==
  /\ pc = "reasoning"
  /\ \E res \in ReasoningResults :
       LET rt == extractReasoning(rawReasoning(res))
           ps == splice(prompts, reasoningAt(prompts), reasoningTurn(variant, rt))
           e == Enter(nextStage("reasoning", variant, params, preConfigModel,
                                prompt), preConfigModel, rt, ps) IN
       /\ reasoningText' = rt
       /\ Write(ps) /\ Goto(e) /\ multi' = e.multi
  /\ UNCHANGED <<variant, params, prompt, preConfigModel, toolUsed, genFiles,
                 steps, toolLog, failed, result, request, searchResult, given, answer>>

ReasoningFails ==
  /\ pc = "reasoning"
  /\ AttemptFails("reasoning")

\* mutant: generate goes on as soon as one multi-model call has settled
MultiSettlesFirst ==
  /\ pc = "multi"
  /\ \E m \in modelKeys(variant), st \in {"fulfilled", "rejected"} :
       /\ multi[m] = "pending"
       /\ LET after == [multi EXCEPT ![m] = st]
              ps == splice(prompts, multiAt(prompts),
                           multiTurn(multiLLMResults(variant, after))) IN
          /\ Write(ps)
          /\ Goto(Enter(nextStage("multi", variant, params, preConfigModel,
                                  prompt), preConfigModel, reasoningText, ps))
          /\ multi' = after
  /\ UNCHANGED <<variant, params, prompt, preConfigModel, reasoningText,
                 toolUsed, genFiles, steps, toolLog, failed, result, request,
                 searchResult, given, answer>>

\* one multi-model call settles; when it is the last one, allSettled resolves
\* and generate goes on (lines 545-563)
MultiSettles ==
  /\ pc = "multi"
  /\ \E m \in modelKeys(variant), st \in {"fulfilled", "rejected"} :
       /\ multi[m] = "pending"
       /\ LET after == [multi EXCEPT ![m] = st] IN
          IF \A k \in modelKeys(variant) : after[k] # "pending"
          THEN LET ps == splice(prompts, multiAt(prompts),
                                multiTurn(multiLLMResults(variant, after))) IN
               /\ Write(ps)
               /\ Goto(Enter(nextStage("multi", variant, params, preConfigModel,
                                        prompt), preConfigModel, reasoningText, ps))
               /\ multi' = after
          ELSE /\ multi' = after
               /\ UNCHANGED <<prompts, callerArray, pc, fb, calls, outcome>>
  /\ UNCHANGED <<variant, params, prompt, preConfigModel, reasoningText,
                 toolUsed, genFiles, steps, toolLog, failed, result, request,
                 searchResult, given, answer>>

\* an attempt of the final generation returns (lines 592-608)
FinalReturns ==
  /\ pc = "final"
  /\ fb' = fallback(fb, TRUE, "llmResp")
  /\ pc' = "done"
  /\ outcome' = [status |-> "returned", error |-> NoError]
  /\ result' = generateResult(params, toolUsed, genFiles, reasoningText)
  /\ UNCHANGED <<variant, params, prompt, prompts, preConfigModel, calls, multi,
                 reasoningText, toolUsed, genFiles, steps, toolLog, failed,
                 request, callerArray, searchResult, given, answer>>

FinalFails ==
  /\ pc = "final"
  /\ AttemptFails("final")

----------------------------------------------------------------------------
(* The specifications *)

\* the state of an instance no request has touched
Blank ==
  /\ params = NoParams
  /\ prompts = << >>
  /\ preConfigModel = NoDecision
  /\ calls = << >>
  /\ multi = NoMulti
  /\ reasoningText = << >>
  /\ outcome = NoOutcome
  /\ toolUsed = << >>
  /\ genFiles = << >>
  /\ steps = << >>
  /\ toolLog = << >>
  /\ failed = << >>
  /\ result = NoResult
  /\ request = 0
  /\ callerArray = NoArray
  /\ searchResult = NoSearch

\* an instance after createOmiAI: no request yet
Init ==
  /\ variant \in {1, 2}
  /\ pc = "idle"
  /\ fb = NoFallback
  /\ prompt = << >>
  /\ given = NoValue
  /\ answer = NoValue
  /\ Blank

\* one request; the models of the sub-runs answer without calling tools
Next ==
  \/ Generate
  \/ PlannerReturns \/ PlannerNoObject \/ PlannerFails
  \/ WebReturns \/ WebFails
  \/ ToolReturns \/ ToolFails
  \/ ReasoningReturns \/ ReasoningFails
  \/ MultiSettles
  \/ FinalReturns \/ FinalFails

Spec == Init /\ [][Next]_vars

\* fallback on its own: any list of at most MaxItems substitutes, any outcome
\* of each attempt
ItemLists ==
  UNION { [1..n -> Substitutes] : n \in 0..MaxItems }

InitFallback ==
  /\ variant = 1
  /\ pc = "fallback"
  /\ \E item \in ItemLists : fb = fallbackInit(item)
  /\ prompt = << >>
  /\ given = NoValue
  /\ answer = NoValue
  /\ Blank

\* genFunc settles: it returns a value or throws an error
FallbackAttempt ==
  /\ pc = "fallback"
  /\ fb.status = "pending"
  /\ \E ok \in BOOLEAN :
       \E out \in (IF ok THEN Values ELSE Errors) : fb' = fallback(fb, ok, out)
  /\ UNCHANGED <<variant, params, prompt, prompts, preConfigModel, pc, calls,
                 multi, reasoningText, outcome, toolUsed, genFiles, steps,
                 toolLog, failed, result, request, callerArray, searchResult, given, answer>>

NextFallback == FallbackAttempt

FallbackSpec == InitFallback /\ [][NextFallback]_vars

\* one request whose tool sub-run calls tools: the caller turns the reasoning
\* sub-run off and leaves the other stages to the planner
ToolParamInputs ==
  { [NoParams EXCEPT !.reasoning = "false"] }
ToolPromptInputs ==
  { <<Turn("user", Str(<<"q">>))>>,
    [i \in 1..NumHistory |-> HistoryTurn(i)]
      \o <<Turn("user", Parts(<<TextPart(<<"q">>), ImagePart(<<"img">>)>>))>> }

GenerateWithTools ==
  /\ pc = "idle"
  /\ \E p \in ToolParamInputs, pr \in ToolPromptInputs :
       Start(p, pr, pr \in ArrayPrompts)

NextTools ==
  \/ GenerateWithTools
  \/ PlannerReturns \/ PlannerFails
  \/ WebReturns \/ WebFails
  \/ ToolExecutes \/ ToolReturns \/ ToolFails
  \/ FinalReturns \/ FinalFails

ToolSpec == Init /\ [][NextTools]_vars

\* one request that runs no sub-run, with any answer of the web search and
\* also with a last turn that has no text or an empty one
EmptyPrompts ==
  { <<Turn("user", Str(<< >>))>>,
    <<Turn("user", Parts(<<TextPart(<< >>), ImagePart(<<"img">>)>>))>> }
WebParamInputs ==
  { [NoParams EXCEPT !.web = w, !.reasoning = "false", !.autoTool = "false"] :
      w \in Flag }

GenerateWithSearch ==
  /\ pc = "idle"
  /\ \E p \in WebParamInputs, pr \in PromptInputs \cup EmptyPrompts :
       Start(p, pr, pr \in ArrayPrompts \/ ~lastPromptContent(pr).isString)

NextWeb ==
  \/ GenerateWithSearch
  \/ PlannerReturns \/ PlannerFails
  \/ WebSearchReturns \/ WebFails
  \/ FinalReturns \/ FinalFails

WebSpec == Init /\ [][NextWeb]_vars

\* one request whose planner can select any registry model: the reasoning
\* sub-run and the final generation with their attempts
GenerateSelecting ==
  /\ pc = "idle"
  /\ \E r \in Flag, st \in BOOLEAN, pr \in PromptInputs :
       Start([NoParams EXCEPT !.reasoning = r, !.stream = st], pr,
             pr \in ArrayPrompts)

NextSelect ==
  \/ GenerateSelecting
  \/ PlannerSelects \/ PlannerFails
  \/ ReasoningReturns \/ ReasoningFails
  \/ FinalReturns \/ FinalFails

SelectSpec == Init /\ [][NextSelect]_vars

\* the tool set of a request on its own: the caller's tools are up to
\* MaxCallerTools tools of distinct names, some named like a built-in;
\* variant 2's generate has no tools parameter
CallerTools(v) ==
  IF v = 2 THEN {<< >>}
  ELSE { ts \in UNION { [1..n -> [name : {"current_datetime", "ocr", "text_to_speech",
                                          "weather", "web_search"},
                                  origin : {"caller"}]] :
                          n \in 0..MaxCallerTools } :
           \A i, j \in 1..Len(ts) : ts[i].name = ts[j].name => i = j }

InitToolSet ==
  /\ variant \in {1, 2}
  /\ pc = "tools"
  /\ fb = NoFallback
  /\ prompt = << >>
  /\ given \in CallerTools(variant)
  /\ answer = NoValue
  /\ Blank

BuildToolSet ==
  /\ pc = "tools"
  /\ answer' = allTools(variant, given)
  /\ pc' = "offered"
  /\ UNCHANGED <<variant, params, prompt, prompts, preConfigModel, fb, calls,
                 multi, reasoningText, outcome, toolUsed, genFiles, steps,
                 toolLog, failed, result, request, callerArray, searchResult,
                 given>>

ToolSetSpec == InitToolSet /\ [][BuildToolSet]_vars

\* one request in which every pending remote call settles: an await of
\* generate resumes when its promise settles, so a request with a call
\* pending takes a step when the call returns or fails.  The requests are
\* one that can run the tool sub-run, with its tool executions, and one that
\* can run the web search, the reasoning sub-run and the multi-model calls;
\* the prompt is the one-string prompt.
GenerateOnce ==
  /\ pc = "idle"
  /\ \E p \in { [NoParams EXCEPT !.web = "false", !.reasoning = "false"],
                [NoParams EXCEPT !.autoTool = "false", !.multiLLM = TRUE] } :
       Start(p, <<Turn("user", Str(<<"q">>))>>, FALSE)

\* a planner attempt returns: gpt-4o or an unknown model id, with the tool
\* sub-run asked for on its own or not at all
PlannerDecides ==
  \E d \in Decisions(variant) :
    /\ d.model \in {"gpt-4o", UnknownModelID}
    /\ d.use_tool => ~d.web_search /\ ~d.reasoning
    /\ PlannerReturnsWith(d)

\* a pending remote call settles
Settles ==
  \/ PlannerDecides \/ PlannerNoObject \/ PlannerFails
  \/ WebReturns \/ WebFails
  \/ ToolExecutes \/ ToolReturns \/ ToolFails
  \/ ReasoningReturns \/ ReasoningFails
  \/ MultiSettles
  \/ FinalReturns \/ FinalFails

LiveSpec == Init /\ [][GenerateOnce \/ Settles]_vars /\ WF_vars(Settles)

\* several requests on one instance, the caller passing the same prompt again
\* (the same array object when the prompt is an array)
GenerateFirst ==
  /\ pc = "idle"
  /\ \E pr \in PromptInputs : Start(NoParams, pr, pr \in ArrayPrompts)

GenerateAgain ==
  /\ pc = "done"
  /\ request < MaxRequests
  /\ IF callerArray # NoArray
     THEN Start(NoParams, callerArray, TRUE)
     ELSE Start(NoParams, prompt, FALSE)

NextReuse ==
  \/ GenerateFirst \/ GenerateAgain
  \/ PlannerReturns \/ PlannerFails
  \/ WebReturns \/ WebFails
  \/ ToolReturns \/ ToolFails
  \/ ReasoningReturns \/ ReasoningFails
  \/ FinalReturns \/ FinalFails

ReuseSpec == Init /\ [][NextReuse]_vars

\* the extraction of the reasoning text on its own: any raw text of at most
\* MaxRaw tokens
RawTexts ==
  UNION { [1..n -> {ThinkOpen, ThinkClose, Space, "r"}] : n \in 0..MaxRaw }

InitExtract ==
  /\ variant \in {1, 2}
  /\ pc = "extract"
  /\ fb = NoFallback
  /\ prompt = << >>
  /\ given \in RawTexts
  /\ answer = NoValue
  /\ Blank

Extract ==
  /\ pc = "extract"
  /\ answer' = extractReasoning(given)
  /\ pc' = "extracted"
  /\ UNCHANGED <<variant, params, prompt, prompts, preConfigModel, fb, calls,
                 multi, reasoningText, outcome, toolUsed, genFiles, steps,
                 toolLog, failed, result, request, callerArray, searchResult, given>>

NextExtract == Extract

ExtractSpec == InitExtract /\ [][NextExtract]_vars

\* the resolution of file references on its own: a last turn of at most
\* MaxParts parts, a media tool called with a reference or another URL
PartKinds == {"text", "image", "file", "empty"}

\* the i-th part of a last turn: its data tells the parts apart; an "empty"
\* part is an image whose data is the empty string
PartOf(kind, i) ==
  LET data == [j \in 1..i |-> "d"] IN
  CASE kind = "text" -> TextPart(data)
    [] kind = "image" -> ImagePart(data)
    [] kind = "file" -> FilePart(data)
    [] kind = "empty" -> ImagePart(<< >>)

PartLists ==
  UNION { { [i \in 1..n |-> PartOf(kinds[i], i)] : kinds \in [1..n -> PartKinds] } :
          n \in 1..MaxParts }

ResolveCalls ==
  { ToolCall(n, u, << >>) :
      n \in MediaTools, u \in {Ref(i) : i \in 0..MaxParts} \cup {ExternalUrl} }

InitResolve ==
  /\ variant \in {1, 2}
  /\ pc = "resolve"
  /\ fb = NoFallback
  /\ \E parts \in PartLists : prompt = <<Turn("user", Parts(parts))>>
  /\ given \in ResolveCalls
  /\ answer = NoValue
  /\ Blank

Resolve ==
  /\ pc = "resolve"
  /\ answer' = toolPassed(latestPromptFiles(prompt), given)
  /\ pc' = "resolved"
  /\ UNCHANGED <<variant, params, prompt, prompts, preConfigModel, fb, calls,
                 multi, reasoningText, outcome, toolUsed, genFiles, steps,
                 toolLog, failed, result, request, callerArray, searchResult, given>>

NextResolve == Resolve

ResolveSpec == InitResolve /\ [][NextResolve]_vars

\* the input of a stage's remote call on its own: any conversation with a
\* turn of at most MaxParts parts, as its last turn or ahead of it
InputConversations ==
  { <<Turn("user", Str(t))>> : t \in {<< >>, <<"q">>} }
  \cup { <<HistoryTurn(1), Turn("user", Parts(parts))>> : parts \in PartLists }
  \cup { <<Turn("assistant", Parts(parts)), Turn("user", Str(<<"q">>))>> :
           parts \in PartLists }
InputStages == {"tool", "reasoning", "multi", "final"}

InitInput ==
  /\ variant \in {1, 2}
  /\ pc = "input"
  /\ fb = NoFallback
  /\ prompt \in InputConversations
  /\ given \in InputStages
  /\ answer = NoValue
  /\ Blank

BuildInput ==
  /\ pc = "input"
  /\ answer' = stageInput(given, prompt, prompt)
  /\ pc' = "built"
  /\ UNCHANGED <<variant, params, prompt, prompts, preConfigModel, fb, calls,
                 multi, reasoningText, outcome, toolUsed, genFiles, steps,
                 toolLog, failed, result, request, callerArray, searchResult,
                 given>>

NextInput == BuildInput

InputSpec == InitInput /\ [][NextInput]_vars

----------------------------------------------------------------------------
(* Vocabulary of the properties *)

\* the planner has returned its decision
Decided == preConfigModel.model # Undefined

\* stage s issued a remote call
Ran(s) == \E i \in 1..Len(calls) : calls[i].stage = s

\* the stage generate is at, or ended in (a returned request ended in the
\* final stage, a failed one in the stage that threw)
StagePos ==
  IF pc = "done"
  THEN IF outcome.status = "returned" THEN "final" ELSE outcome.error.stage
  ELSE pc

\* generate has taken the decision to run or skip stage s
Passed(s) ==
  /\ pc \in {"web", "tool", "reasoning", "multi", "final", "done"}
  /\ Decided
  /\ stageIndex(StagePos) >= stageIndex(s)

\* what a caller flag and a planner flag decide when the caller's flag
\* overrides the planner's and an unset flag follows the planner
Override(flag, planned) ==
  CASE flag = "true" -> TRUE
    [] flag = "false" -> FALSE
    [] flag = Undefined -> planned

\* the first token of a turn's text, which names the synthetic turns
TurnHead(t) ==
  IF t.content.isString
  THEN (IF Len(t.content.text) > 0 THEN t.content.text[1] ELSE "")
  ELSE (IF Len(t.content.parts) > 0 /\ t.content.parts[1].type = "text"
           /\ Len(t.content.parts[1].data) > 0
        THEN t.content.parts[1].data[1] ELSE "")

\* the text of a synthetic turn after its head
TurnPayload(t) ==
  IF t.content.isString THEN Tail(t.content.text)
  ELSE Tail(t.content.parts[1].data)

MultiHead == "Context from multiple LLMs: "
MultiTurnAt == {i \in 1..Len(prompts) : TurnHead(prompts[i]) = MultiHead}

\* position of a key in Object.keys(modelList)
KeyIndex(m) == CHOOSE i \in 1..Len(modelList(variant)) : modelList(variant)[i] = m

\* Promise.allSettled has resolved
AllSettled ==
  /\ multi # NoMulti
  /\ \A m \in modelKeys(variant) : multi[m] # "pending"

\* the calls of stage s that rejected
FailedOf(s) == SelectSeq(failed, LAMBDA c : c.stage = s)

\* the planner call resolved, but without an object
PlannerGaveNoObject ==
  /\ pc = "done"
  /\ ~Decided
  /\ fb.status = "returned"
  /\ fb.resp = Undefined

\* the raw text of ExtractSpec read as X<think>INNER</think>TRAILING: the
\* position of the first <think>, and of the first </think> after it
OpenAt == CHOOSE o \in 1..Len(given) :
            given[o] = ThinkOpen /\ \A j \in 1..(o - 1) : given[j] # ThinkOpen
CloseAt == CHOOSE c \in (OpenAt + 1)..Len(given) :
             given[c] = ThinkClose
             /\ \A j \in (OpenAt + 1)..(c - 1) : given[j] # ThinkClose
HasThinkForm ==
  \E o, c \in 1..Len(given) : o < c /\ given[o] = ThinkOpen /\ given[c] = ThinkClose
Inner == SubSeq(given, OpenAt + 1, CloseAt - 1)

\* out is text without its leading and trailing whitespace
IsTrimOf(out, text) ==
  /\ \E a, b \in 0..Len(text) :
       /\ a + b <= Len(text)
       /\ \A i \in 1..a : text[i] = Space
       /\ \A i \in (Len(text) - b + 1)..Len(text) : text[i] = Space
       /\ out = SubSeq(text, a + 1, Len(text) - b)
  /\ out # << >> => out[1] # Space /\ out[Len(out)] # Space

\* every candidate of stage s has rejected: the one web search call, or the
\* first attempt and every substitute of a fallback-guarded stage
StageFailed(s) ==
  IF s = "web" THEN Len(FailedOf("web")) = 1
  ELSE Len(FailedOf(s)) = 1 + Len(stageItems(variant, s, preConfigModel))

\* the heads of the turns generate inserts
SyntheticHeads ==
  {"Web search result: ", "Tool result: ", "Context: ", "Reasoning context: ",
   MultiHead}

\* the planner asked for no augmentation and the caller set no stage flag and
\* no multiLLM
NoAugmentation ==
  /\ Decided
  /\ ~preConfigModel.web_search
  /\ ~preConfigModel.reasoning
  /\ ~preConfigModel.use_tool
  /\ params.web = Undefined
  /\ params.reasoning = Undefined
  /\ params.autoTool = Undefined
  /\ ~params.multiLLM

\* the parts of the last turn of the conversation generate received, the
\* number of non-text parts before the k-th, and the position of the non-text
\* part that has i non-text parts before it
LastParts == lastPromptContent(prompt).parts
NonTextBefore(k) ==
  Cardinality({j \in 1..(k - 1) : LastParts[j].type # "text"})
NonTextCount ==
  Cardinality({j \in 1..Len(LastParts) : LastParts[j].type # "text"})
NonTextAt(i) ==
  CHOOSE k \in 1..Len(LastParts) :
    LastParts[k].type # "text" /\ NonTextBefore(k) = i

\* the references are assigned to the non-text parts in part order
RefsInPartOrder ==
  /\ Len(latestPromptFiles(prompt)) = NonTextCount
  /\ \A i \in 0..(NonTextCount - 1) :
       /\ latestPromptFiles(prompt)[i + 1].ref = Ref(i)
       /\ latestPromptFiles(prompt)[i + 1].data = LastParts[NonTextAt(i)].data
       /\ latestPromptFiles(prompt)[i + 1].type = LastParts[NonTextAt(i)].type

\* the url a media tool was called with is the reference of a part
KnownRef ==
  /\ given.args.url.host = RefHost
  /\ given.args.url.path \in 0..(NonTextCount - 1)

\* a text that holds a binary payload
HasBlob(text) == \E i \in 1..Len(text) : text[i] = "blob"

\* the text of a turn: its string content, or the data of its parts in order
RECURSIVE PartsText(_)
PartsText(parts) ==
  IF parts = << >> THEN << >> ELSE Head(parts).data \o PartsText(Tail(parts))
TurnText(t) ==
  IF t.content.isString THEN t.content.text ELSE PartsText(t.content.parts)

\* the executions of the generating tools, in execution order
Generated == SelectSeq(toolLog, LAMBDA t : t.toolName \in GeneratingTools)

\* the head of the turn each augmentation stage inserts
StageHead(s) ==
  CASE s = "web" -> "Web search result: "
    [] s = "tool" -> "Tool result: "
    [] s = "reasoning" -> (IF variant = 1 THEN "Context: " ELSE "Reasoning context: ")
    [] s = "multi" -> MultiHead

\* the positions of the turn stage s inserted in the conversation
InsertedAt(s) == {i \in 1..Len(prompts) : TurnHead(prompts[i]) = StageHead(s)}

\* the first token of a message of a remote call
MessageHead(m) ==
  IF m.content.isString
  THEN (IF Len(m.content.text) > 0 THEN m.content.text[1] ELSE "")
  ELSE (IF Len(m.content.parts) > 0 /\ m.content.parts[1].type = "text"
           /\ Len(m.content.parts[1].text) > 0
        THEN m.content.parts[1].text[1] ELSE "")

\* the turn of stage s is in what the remote call c was given
InputHolds(c, s) ==
  \/ \E k \in 1..Len(c.input.prompt) : c.input.prompt[k] = StageHead(s)
  \/ \E k \in 1..Len(c.input.messages) :
       MessageHead(c.input.messages[k]) = StageHead(s)

\* the augmentation stages, and those that issued a call in this request
AugmentationStages == {"web", "tool", "reasoning", "multi"}
StagesRan == {s \in AugmentationStages : Ran(s)}

\* the turns of the conversation that no stage inserted
OriginalTurns == SelectSeq(prompts, LAMBDA t : TurnHead(t) \notin SyntheticHeads)

\* generate has reached the final generation
AtFinal == pc = "final" \/ (pc = "done" /\ Ran("final"))

\* a is an initial segment of b
IsPrefix(a, b) == Len(a) <= Len(b) /\ SubSeq(b, 1, Len(a)) = a

\* the result generate returned carries toolUsed and genFiles as they are
ReturnedAccumulated ==
  outcome.status = "returned" =>
    result.toolUsed = toolUsed /\ result.files = genFiles

\* every web_search context record is ahead of every tool-call record
ContextRecordFirst ==
  \A i, j \in 1..Len(toolUsed) :
    (toolUsed[i].type = "tool-context-use" /\ toolUsed[j].type = "tool-call")
      => i < j

\* the web search calls of the request and the web_search context records
WebCalls == SelectSeq(calls, LAMBDA c : c.stage = "web")
WebRecords == SelectSeq(toolUsed, LAMBDA r : r.type = "tool-context-use")

\* the web search stage ran and its call returned
WebDone == Ran("web") /\ pc # "web" /\ FailedOf("web") = << >>

\* the text of the first k results, each reduced to its title, its content
\* or else its description, its snippets and its url
RECURSIVE ResultsText(_, _)
ResultsText(results, k) ==
  IF k = 0 THEN << >>
  ELSE ResultsText(results, k - 1)
       \o <<"{">> \o results[k].title \o <<",">>
       \o (IF results[k].content # << >> THEN results[k].content
           ELSE results[k].description)
       \o <<",">> \o results[k].snippets \o <<",">> \o results[k].url \o <<"}">>

\* the latest turn of the request has no extractable plain text: its content
\* is the empty string, or a part list without a text part
NoExtractableText ==
  LET c == lastPromptContent(prompt) IN
  IF c.isString THEN c.text = << >>
  ELSE \A i \in 1..Len(c.parts) : c.parts[i].type # "text"

\* the tool-call records of toolUsed, and what a record of each tool
\* execution of the request would be, in execution order
ToolRecords == SelectSeq(toolUsed, LAMBDA r : r.type = "tool-call")
ExecutedRecords ==
  [i \in 1..Len(toolLog) |->
     [name |-> toolLog[i].toolName, result |-> toolLog[i].result,
      type |-> "tool-call", args |-> toolLog[i].args]]

\* the tool sub-run ran and one of its attempts returned
ToolDone == Ran("tool") /\ pc # "tool" /\ InsertedAt("tool") # {}

\* the references of the non-text parts of the last turn, one per part in
\* part order
LastTurnRefs == [i \in 1..NonTextCount |-> Ref(i - 1)]


\* the multi-model calls of the request, in issue order
MultiCalls == SelectSeq(calls, LAMBDA c : c.stage = "multi")

\* what a message part of a remote call carries: its text, image or data
PartPayload(c) ==
  CASE c.type = "text" -> c.text
    [] c.type = "image" -> c.image
    [] c.type = "file" -> c.data

\* the positions of the text parts of a part list, and the k-th of them
TextPartsOf(parts) == {i \in 1..Len(parts) : parts[i].type = "text"}
TextPartAt(parts, k) ==
  CHOOSE i \in TextPartsOf(parts) :
    Cardinality({j \in TextPartsOf(parts) : j < i}) = k - 1

\* message m is turn t with every part kept in order
KeepsEveryPart(m, t) ==
  /\ ~m.content.isString
  /\ Len(m.content.parts) = Len(t.content.parts)
  /\ \A k \in 1..Len(t.content.parts) :
       /\ m.content.parts[k].type = t.content.parts[k].type
       /\ PartPayload(m.content.parts[k]) = t.content.parts[k].data

\* message m is turn t with exactly its text parts kept in order
KeepsTextParts(m, t) ==
  /\ ~m.content.isString
  /\ Len(m.content.parts) = Cardinality(TextPartsOf(t.content.parts))
  /\ \A k \in 1..Len(m.content.parts) :
       /\ m.content.parts[k].type = "text"
       /\ m.content.parts[k].text
            = t.content.parts[TextPartAt(t.content.parts, k)].data

\* the fallback-guarded steps, and the calls of the attempts of step s
GuardedSteps == {"planner", "tool", "reasoning", "final"}
StepCalls(s) == SelectSeq(calls, LAMBDA c : c.stage = s)

\* every attempt of every fallback-guarded step is the step's first attempt
\* with another model: the i-th substitute in the (i+1)-th attempt
SameButModel ==
  \A s \in GuardedSteps :
    LET attempts == StepCalls(s) IN
    /\ attempts # << >> =>
         Len(attempts) <= 1 + Len(stageItems(variant, s, preConfigModel))
    /\ \A i \in 2..Len(attempts) :
         /\ attempts[i].fn = attempts[1].fn
         /\ attempts[i].input = attempts[1].input
         /\ attempts[i].options = attempts[1].options
         /\ attempts[i].model = stageItems(variant, s, preConfigModel)[i - 1]

\* the substitute the final stage is to have for the selected model: its
\* registry fallback when that is set and is a registry key, otherwise
\* gemini-1.5-flash for gpt-4o and gpt-4o for any other model
ExpectedSubstitute ==
  LET id == preConfigModel.model
      fbk == modelFallback(variant, id) IN
  IF fbk # "null" /\ fbk \in modelKeys(variant) THEN fbk
  ELSE IF id = "gpt-4o" THEN "gemini-1.5-flash" ELSE "gpt-4o"

\* every registry fallback is null or the key of another entry
RegistryFallbacksSound ==
  \A m \in modelKeys(variant) :
    \/ modelFallback(variant, m) = "null"
    \/ /\ modelFallback(variant, m) \in modelKeys(variant)
       /\ modelFallback(variant, m) # m

\* the attempts of every fallback-guarded step: at most one more than the
\* step has substitutes, the (i+1)-th against the i-th substitute, so that no
\* substitute gets a second attempt
AttemptsBounded ==
  \A s \in GuardedSteps :
    LET attempts == StepCalls(s) IN
    attempts # << >> =>
      LET items == stageItems(variant, s, preConfigModel) IN
      /\ Len(attempts) <= 1 + Len(items)
      /\ \A i \in 2..Len(attempts) : attempts[i].model = items[i - 1]
      /\ Len(FailedOf(s)) <= Len(attempts)

\* one call per registry model, in key order
OneCallPerModel ==
  Ran("multi") =>
    /\ Len(MultiCalls) = Len(modelList(variant))
    /\ \A m \in modelKeys(variant) :
         Cardinality({i \in 1..Len(MultiCalls) :
                        MultiCalls[i].model = modelProvider(variant, m)}) = 1

\* a request is under way / has ended with a result or with an error
Running == pc \notin {"idle", "done"}
Finished == pc = "done" /\ outcome.status \in {"returned", "failed"}

----------------------------------------------------------------------------
(* Properties *)

\* C1: fallback attempts the work with no substitution first and then with
\* item[0], item[1], ... in order; an attempt is made only when every earlier
\* one failed, so the substitutes after the first success are never tried;
\* and fallback returns exactly the value of the attempt that succeeded.
C1_FirstSuccessReturned ==
  LET n == Len(fb.tried) IN
  /\ n <= Len(fb.item) + 1
  /\ \A i \in 1..n :
       fb.tried[i].arg = (IF i = 1 THEN Undefined ELSE fb.item[i - 1])
  /\ \A i \in 1..(n - 1) : ~fb.tried[i].ok
  /\ (n > 0 /\ fb.tried[n].ok) => fb.status = "returned"
  /\ fb.status = "returned" =>
       /\ n > 0
       /\ fb.tried[n].ok
       /\ fb.resp = fb.tried[n].out

\* C1 witness: three substitutes, the primary and item[0] failed, item[1]
\* succeeded and item[2] was never tried
C1_Witness ==
  /\ pc = "fallback"
  /\ Len(fb.item) = 3
  /\ fb.status = "returned"
  /\ Len(fb.tried) = 3
  /\ fb.tried[3].arg = fb.item[2]
  /\ fb.resp = fb.tried[3].out

\* C2: when the attempt with no substitution and all N substituted attempts
\* fail, fallback throws the error of the last attempt, unmodified, after
\* exactly N + 1 attempts, and returns no value; and it throws in no other
\* case.
C2_ExhaustedThrowsLastError ==
  LET n == Len(fb.tried)
      allFailed == n = Len(fb.item) + 1 /\ \A i \in 1..n : ~fb.tried[i].ok IN
  /\ allFailed <=> fb.status = "thrown"
  /\ fb.status = "thrown" =>
       /\ fb.error = fb.tried[n].out
       /\ fb.resp = Undefined

\* C2 witness: two substitutes, three failed attempts, and the error thrown
\* is the last one, which differs from the first
C2_Witness ==
  /\ pc = "fallback"
  /\ Len(fb.item) = 2
  /\ fb.status = "thrown"
  /\ Len(fb.tried) = 3
  /\ fb.tried[1].out # fb.tried[3].out
  /\ fb.error = fb.tried[3].out

\* C3: during a request the caller's last turn stays the last element of the
\* conversation, with its content unchanged (every synthetic turn is inserted
\* before it).
C3_LastTurnStaysLast ==
  pc \in {"planner", "web", "tool", "reasoning", "multi", "final", "done"} =>
    /\ Len(prompts) >= Len(prompt)
    /\ prompts[Len(prompts)] = prompt[Len(prompt)]

\* C4: given the latest turn has text, the web search runs exactly when
\* contextTool.web is true, or is unset and the planner returns web_search.
C4_WebFlagOverride ==
  (Passed("web") /\ Truthy(latestTextPrompt(prompt))) =>
    (Ran("web") <=> Override(params.web, preConfigModel.web_search))

\* C4 witness: contextTool.web = false against a planner that asked for the
\* search; the request ran to its end without a search
C4_Witness ==
  /\ pc = "done"
  /\ outcome.status = "returned"
  /\ Truthy(latestTextPrompt(prompt))
  /\ params.web = "false"
  /\ preConfigModel.web_search
  /\ ~Ran("web")

\* C5: the reasoning sub-run runs exactly when reasoning is true, or is unset
\* and the planner returns reasoning.
C5_ReasoningFlagOverride ==
  Passed("reasoning") =>
    (Ran("reasoning") <=> Override(params.reasoning, preConfigModel.reasoning))

\* C5 witness: reasoning = true forced the sub-run against the planner
C5_Witness ==
  /\ pc = "done"
  /\ outcome.status = "returned"
  /\ params.reasoning = "true"
  /\ ~preConfigModel.reasoning
  /\ Ran("reasoning")

\* C6: the tool-calling sub-run runs exactly when (autoTool ?? use_tool) is
\* true: autoTool = true forces it, autoTool = false disables it, and an
\* unset autoTool follows the planner.
C6_ToolFlagOverride ==
  Passed("tool") =>
    (Ran("tool") <=> Override(params.autoTool, preConfigModel.use_tool))

\* C7: the remote calls of a request are issued stage by stage in the order
\* planner, web search, tool sub-run, reasoning sub-run, multi-model, final
\* generation: no call is followed by a call of an earlier stage, the
\* latest call belongs to the stage generate is in, and a call of the final
\* stage is issued only when every multi-model call has settled.
C7_StageOrder ==
  /\ \A i \in 1..(Len(calls) - 1) :
       stageIndex(calls[i].stage) <= stageIndex(calls[i + 1].stage)
  /\ pc \in {"planner", "web", "tool", "reasoning", "multi", "final"} =>
       calls[Len(calls)].stage = pc
  /\ Cardinality({i \in 1..Len(calls) : calls[i].stage = "web"}) <= 1
  /\ Ran("final") /\ Ran("multi") => AllSettled

\* C7 witness: a request in which all six steps ran, and which returned
C7_Witness ==
  /\ pc = "done"
  /\ outcome.status = "returned"
  /\ \A i \in 1..Len(Stages) : Ran(Stages[i])

\* C8: in a streaming request no multi-model call is issued and no
\* "Context from multiple LLMs" turn is inserted.
C8_NoMultiWhenStreaming ==
  params.stream => (~Ran("multi") /\ MultiTurnAt = {})

\* C9: when the multi-model calls have all settled, the conversation holds
\* one multi-model turn whose texts are exactly those of the fulfilled calls,
\* each once, in the order of the registry keys, whatever the order in which
\* the calls settled; and the request has not failed in the multi-model stage.
C9_FulfilledInRegistryOrder ==
  AllSettled =>
    /\ Cardinality(MultiTurnAt) = 1
    /\ LET texts == TurnPayload(prompts[CHOOSE i \in MultiTurnAt : TRUE]) IN
       /\ \A i \in 1..Len(texts) :
            texts[i] \in modelKeys(variant) /\ multi[texts[i]] = "fulfilled"
       /\ \A m \in modelKeys(variant) :
            multi[m] = "fulfilled" => \E i \in 1..Len(texts) : texts[i] = m
       /\ \A i, j \in 1..Len(texts) :
            i < j => KeyIndex(texts[i]) < KeyIndex(texts[j])
    /\ pc \in {"final", "done"}
    /\ outcome.status = "failed" => outcome.error.stage = "final"

\* C9 witness: some calls were rejected, others fulfilled, and the request
\* returned
C9_Witness ==
  /\ AllSettled
  /\ pc = "done"
  /\ outcome.status = "returned"
  /\ Cardinality({m \in modelKeys(variant) : multi[m] = "rejected"}) = 2
  /\ Cardinality({m \in modelKeys(variant) : multi[m] = "fulfilled"}) >= 2

\* C10: a request whose planner returned a model id that is no registry key
\* fails with the error of the missing registry entry, and no final
\* generation is issued against any model.
C10_UnknownModelFails ==
  (pc = "done" /\ Decided /\ ~modelConfigDefined(variant, preConfigModel)) =>
    /\ outcome.status = "failed"
    /\ outcome.error = TypeError
    /\ ~Ran("final")

\* C11: when both planner candidates (the primary and the single
\* substitute) have rejected, or the planner call resolved without an object,
\* generate has failed in the planner step: no decision is in use, every
\* remote call issued is a planner call, and no result is returned.
C11_PlannerFailureFatal ==
  (Len(FailedOf("planner")) = 2 \/ PlannerGaveNoObject) =>
    /\ pc = "done"
    /\ outcome.status = "failed"
    /\ outcome.error.stage = "planner"
    /\ preConfigModel = NoDecision
    /\ \A i \in 1..Len(calls) : calls[i].stage = "planner"
    /\ result = NoResult

\* C11 witness: the primary planner model and then its substitute rejected
C11_Witness ==
  /\ Len(FailedOf("planner")) = 2
  /\ FailedOf("planner")[1].model = "llama-3.3-70b-specdec"
  /\ FailedOf("planner")[2].model = "gemini-1.5-flash-8b"
  /\ outcome.status = "failed"

\* C12: the reasoning text extracted from a raw text of the form
\* X<think>INNER</think>TRAILING is INNER without its leading and trailing
\* whitespace, and the reasoning text extracted from a raw text without
\* <think> is the raw text.
C12_ReasoningExtraction ==
  pc = "extracted" =>
    /\ HasThinkForm => IsTrimOf(answer, Inner)
    /\ ~includes(given, ThinkOpen) => answer = given

\* C12 amended: the same, for a raw text whose INNER holds no further <think>
C12_ReasoningExtractionOneOpen ==
  pc = "extracted" =>
    /\ (HasThinkForm /\ ~includes(Inner, ThinkOpen)) => IsTrimOf(answer, Inner)
    /\ ~includes(given, ThinkOpen) => answer = given

\* C12 witness: text before the tag, whitespace inside it and text after it
C12_Witness ==
  /\ pc = "extracted"
  /\ given = <<"r", ThinkOpen, Space, "r", ThinkClose, "r">>
  /\ answer = <<"r">>

\* C13: in a request whose reasoning sub-run ran, no attempt of the final
\* generation, first or substitute, is issued against the llama-3.3 model.
C13_NoLlamaAfterReasoning ==
  Ran("reasoning") =>
    \A i \in 1..Len(calls) :
      calls[i].stage = "final" => calls[i].model # "llama-3.3-70b-specdec"

\* C13, variant 1 alone
C13_NoLlamaAfterReasoningV1 ==
  variant = 1 => C13_NoLlamaAfterReasoning

\* C14: when the web search call has rejected, or every candidate of the tool
\* sub-run, the reasoning sub-run or the final generation has rejected,
\* generate has failed with the error of the last rejected call, no call of a
\* later stage was issued and no result is returned; and a request never
\* fails with the error of a multi-model call.
C14_AllOrNothing ==
  /\ \A s \in {"web", "tool", "reasoning", "final"} :
       StageFailed(s) =>
         /\ pc = "done"
         /\ outcome.status = "failed"
         /\ outcome.error = CallError(s, FailedOf(s)[Len(FailedOf(s))].model)
         /\ \A i \in 1..Len(calls) : stageIndex(calls[i].stage) <= stageIndex(s)
         /\ result = NoResult
  /\ outcome.status = "failed" => outcome.error.stage # "multi"
  /\ outcome.status = "returned" =>
       /\ result.returned
       /\ \A s \in {"web", "tool", "reasoning", "final"} : ~StageFailed(s)

\* C14 witness: after a web search and a tool sub-run that succeeded, the
\* three candidates of the reasoning sub-run rejected
C14_Witness ==
  /\ StageFailed("reasoning")
  /\ Len(FailedOf("reasoning")) = 3
  /\ Ran("web") /\ Ran("tool")
  /\ FailedOf("web") = << >> /\ FailedOf("tool") = << >>
  /\ outcome.status = "failed"
  /\ ~Ran("final")

\* C15: a request sees nothing an earlier request on the instance wrote: the
\* conversation a later request receives holds no turn inserted by an earlier
\* one, also when the caller passes the same prompt array again, and the
\* request starts with an empty toolUsed and no generated files.
C15_RequestIsolation ==
  request >= 2 =>
    /\ \A i \in 1..Len(prompt) : TurnHead(prompt[i]) \notin SyntheticHeads
    /\ pc = "planner" => toolUsed = << >> /\ genFiles = << >>

\* C16: when the planner asks for no augmentation and the caller sets no
\* stage flag and no multiLLM, the only remote calls are the planner's and the
\* final generation's, the conversation is left as the caller gave it, every
\* attempt of the final generation is sent exactly the caller's conversation,
\* and the result has an empty toolUsed, no files and no reasoningText.
C16_NoAugmentationFrame ==
  NoAugmentation =>
    /\ \A i \in 1..Len(calls) : calls[i].stage \in {"planner", "final"}
    /\ prompts = prompt
    /\ \A i \in 1..Len(calls) :
         calls[i].stage = "final" =>
           calls[i].input.messages = messageMap(prompt, FALSE)
    /\ outcome.status = "returned" =>
         /\ result.returned
         /\ result.toolUsed = << >>
         /\ result.files = << >>
         /\ ~result.hasReasoningText

\* C16 witness: such a request, with history and an image in its last turn,
\* returned from the substitute of the final generation
C16_Witness ==
  /\ NoAugmentation
  /\ outcome.status = "returned"
  /\ Len(prompt) = NumHistory + 1
  /\ Len(latestPromptFiles(prompt)) = 1
  /\ Len(SelectSeq(calls, LAMBDA c : c.stage = "final")) = 2
  /\ result.returned

\* C17: the object generate returns has object set exactly when a schema was
\* given and stream is off, partialObjectStream set exactly when a schema was
\* given and stream is on, and neither when no schema was given.
C17_StructuredOutput ==
  outcome.status = "returned" =>
    /\ result.returned
    /\ result.object <=> (params.schema /\ ~params.stream)
    /\ result.partialObjectStream <=> (params.schema /\ params.stream)
    /\ ~params.schema => (~result.object /\ ~result.partialObjectStream)

\* C17 witness: a streaming request with a schema returned, with
\* partialObjectStream and without object
C17_Witness ==
  /\ outcome.status = "returned"
  /\ params.schema /\ params.stream
  /\ result.partialObjectStream
  /\ ~result.object

\* C18: the planner call, the attempts of the tool and of the reasoning
\* sub-run and the multi-model calls are never issued with the streaming
\* function, whatever the stream flag; every attempt of the final generation,
\* first or substitute, is issued with the streaming function exactly when the
\* caller's stream flag is on.
C18_OnlyFinalStreams ==
  \A i \in 1..Len(calls) :
    /\ calls[i].stage = "planner" => calls[i].fn = "generateObject"
    /\ calls[i].stage \in {"tool", "reasoning", "multi"} =>
         calls[i].fn = "generateText"
    /\ calls[i].stage = "web" => calls[i].fn # "streamText"
    /\ calls[i].stage = "final" =>
         (calls[i].fn = "streamText" <=> params.stream)
         /\ (calls[i].fn = "generateText" <=> ~params.stream)

\* C18 witness: a streaming request ran the tool sub-run, the reasoning
\* sub-run and the multi-model calls, and returned from the substitute of the
\* final generation
C18_Witness ==
  /\ params.stream
  /\ Ran("tool") /\ Ran("reasoning") /\ Ran("multi")
  /\ Len(SelectSeq(calls, LAMBDA c : c.stage = "final")) = 2
  /\ outcome.status = "returned"

\* C19: the references 0 .. n-1 are assigned to the n non-text parts of the
\* last turn in part order; a media tool called with reference i hands the
\* data of part i to its capability, and called with a URL that is no known
\* reference hands that URL over unchanged.
C19_ReferenceResolution ==
  pc = "resolved" =>
    /\ RefsInPartOrder
    /\ KnownRef =>
         answer = PassData(LastParts[NonTextAt(given.args.url.path)].data)
    /\ ~KnownRef => answer = PassUrl(given.args.url)

\* C19 amended: the same, the data of part i being handed over when it is
\* not the empty string, and the reference itself when it is
C19_ReferenceResolutionNonEmpty ==
  pc = "resolved" =>
    /\ RefsInPartOrder
    /\ KnownRef =>
         LET data == LastParts[NonTextAt(given.args.url.path)].data IN
         answer = IF data # << >> THEN PassData(data) ELSE PassUrl(given.args.url)
    /\ ~KnownRef => answer = PassUrl(given.args.url)

\* C19 witness: speech_to_text called with reference 1 of a last turn that
\* starts with a text part was handed the data of the third part
C19_Witness ==
  /\ pc = "resolved"
  /\ given.toolName = "speech_to_text"
  /\ given.args.url = Ref(1)
  /\ Len(LastParts) = 3
  /\ LastParts[1].type = "text"
  /\ answer = PassData(LastParts[3].data)
  /\ LastParts[3].data # LastParts[2].data

\* C20: the generated files of a request are, in execution order, one
\* artifact per execution of ai_image_generation (an image/png) or
\* text_to_speech (an audio/mpeg) and nothing else; such an execution returns
\* the fixed acknowledgement string of its tool; and no binary payload is in
\* a tool result, in toolUsed or in a turn of the conversation.
C20_GeneratingTools ==
  /\ Len(genFiles) = Len(Generated)
  /\ \A k \in 1..Len(Generated) :
       IF Generated[k].toolName = "ai_image_generation"
       THEN /\ genFiles[k].mimeType = "image/png"
            /\ genFiles[k].type = "image"
            /\ genFiles[k].data = Blob("image")
            /\ Generated[k].result
                 = (IF variant = 1 THEN <<"image generated and added to files">>
                    ELSE <<"image generated">>)
       ELSE /\ genFiles[k].mimeType = "audio/mpeg"
            /\ genFiles[k].type = "file"
            /\ genFiles[k].data = Blob("audio")
            /\ Generated[k].result = <<"audio generated">>
  /\ \A i \in 1..Len(toolLog) : ~HasBlob(toolLog[i].result)
  /\ \A i \in 1..Len(toolUsed) : ~HasBlob(toolUsed[i].result)
  /\ \A i \in 1..Len(steps) : \A j \in 1..Len(steps[i]) : ~HasBlob(steps[i][j].result)
  /\ \A i \in 1..Len(prompts) : ~HasBlob(TurnText(prompts[i]))

\* C20 witness: a request whose tool sub-run generated an image and then an
\* audio returned with the two files and the two acknowledgements
C20_Witness ==
  /\ outcome.status = "returned"
  /\ Len(result.files) = 2
  /\ result.files[1].mimeType = "image/png"
  /\ result.files[2].mimeType = "audio/mpeg"
  /\ Len(result.toolUsed) = 2
  /\ result.toolUsed[1].name = "ai_image_generation"
  /\ result.toolUsed[2].name = "text_to_speech"
  /\ result.toolUsed[2].result = <<"audio generated">>

\* C21: the synthetic turn a stage inserted is part of the input of every
\* call of the later stages (tool sub-run, reasoning sub-run, multi-model
\* calls, final generation).
C21_AugmentationVisible ==
  \A i \in 1..Len(calls) :
    \A s \in {"web", "tool", "reasoning", "multi"} :
      ( /\ calls[i].stage \in {"tool", "reasoning", "multi", "final"}
        /\ stageIndex(s) < stageIndex(calls[i].stage)
        /\ InsertedAt(s) # {} )
      => InputHolds(calls[i], s)

\* C21 on the stages whose input is the conversation: the turns inserted so
\* far are in the input of every reasoning, multi-model and final call
C21_VisibleInMessages ==
  \A i \in 1..Len(calls) :
    \A s \in {"web", "tool", "reasoning", "multi"} :
      ( /\ calls[i].stage \in {"reasoning", "multi", "final"}
        /\ stageIndex(s) < stageIndex(calls[i].stage)
        /\ InsertedAt(s) # {} )
      => InputHolds(calls[i], s)

\* C22, first part: at every point of a request the original turns are in
\* the conversation in their original order with unchanged role and content,
\* each stage has inserted at most one turn, of role user, and at the final
\* generation the conversation has the original length plus the number of
\* stages that ran.
C22_OriginalTurnsKept ==
  pc \in {"planner", "web", "tool", "reasoning", "multi", "final", "done"} =>
    /\ OriginalTurns = prompt
    /\ \A s \in AugmentationStages :
         /\ Cardinality(InsertedAt(s)) <= 1
         /\ \A i \in InsertedAt(s) : prompts[i].role = "user"
    /\ Len(prompts) <= Len(prompt) + 4
    /\ AtFinal => Len(prompts) = Len(prompt) + Cardinality(StagesRan)

\* C22: the conversation is insert-only, and the synthetic turns appear in
\* stage order (web search, tool result, reasoning, multi-model).
C22_InsertOnly ==
  /\ C22_OriginalTurnsKept
  /\ \A s, t \in AugmentationStages :
       stageIndex(s) < stageIndex(t) =>
         \A i \in InsertedAt(s) : \A j \in InsertedAt(t) : i < j

\* C23: within a request every step leaves toolUsed and genFiles as they
\* were or adds entries at their end; the returned toolUsed and files are the
\* accumulated sequences; and the web_search context record precedes every
\* tool-call record.
C23_AppendOnly ==
  [][ /\ request' = request =>
           /\ IsPrefix(toolUsed, toolUsed')
           /\ IsPrefix(genFiles, genFiles')
      /\ ReturnedAccumulated'
      /\ ContextRecordFirst' ]_vars

\* C23 witness: a request returned a toolUsed made of the web_search record
\* followed by the records of two tool calls, one of which generated a file
C23_Witness ==
  /\ outcome.status = "returned"
  /\ Len(result.toolUsed) = 3
  /\ result.toolUsed[1].type = "tool-context-use"
  /\ result.toolUsed[2].type = "tool-call"
  /\ result.toolUsed[3].type = "tool-call"
  /\ Len(result.files) = 1

\* C24: the web search stage makes exactly one search call, with the latest
\* text as query; when the call has returned n results, toolUsed holds
\* exactly one context record, named web_search with that query, and the
\* conversation exactly one web search turn, whose payload is the first
\* min(3, n) results in their order, each reduced to title,
\* content-or-description, snippets and url; before that, and when the stage
\* does not run, there is no such record and no such turn.
C24_WebSearchStage ==
  /\ Len(WebCalls) <= 1
  /\ \A i \in 1..Len(WebCalls) :
       /\ WebCalls[i].fn = "jigsaw.web.search"
       /\ WebCalls[i].input.prompt = latestTextPrompt(prompt)
  /\ IF WebDone
     THEN /\ Len(WebRecords) = 1
          /\ WebRecords[1].name = "web_search"
          /\ WebRecords[1].args.text = latestTextPrompt(prompt)
          /\ Cardinality(InsertedAt("web")) = 1
          /\ \A i \in InsertedAt("web") :
               /\ prompts[i].role = "user"
               /\ TurnPayload(prompts[i])
                    = <<"[">>
                      \o ResultsText(searchResult,
                                     IF Len(searchResult) < 3
                                     THEN Len(searchResult) ELSE 3)
                      \o <<"]">>
     ELSE /\ WebRecords = << >>
          /\ InsertedAt("web") = {}

\* C24 witness: the search returned four results, the second without a
\* content, and the request returned with the one record and the one turn
C24_Witness ==
  /\ outcome.status = "returned"
  /\ WebDone
  /\ Len(searchResult) = 4
  /\ searchResult[2].content = << >>
  /\ searchResult[3].content # << >>
  /\ Len(result.toolUsed) = 1
  /\ Len(prompts) = Len(prompt) + 1

\* C25: in a request whose latest turn has no extractable plain text no
\* search call is made, no context record is appended and no web search turn
\* is inserted, whatever contextTool.web and the planner's web_search are.
C25_NoSearchWithoutText ==
  (pc # "idle" /\ NoExtractableText) =>
    /\ WebCalls = << >>
    /\ WebRecords = << >>
    /\ InsertedAt("web") = {}
    /\ searchResult = NoSearch

\* C25 witness: a request with the empty string as prompt, contextTool.web =
\* true and a planner that asked for a web search returned without a search
C25_Witness ==
  /\ outcome.status = "returned"
  /\ lastPromptContent(prompt) = Str(<< >>)
  /\ params.web = "true"
  /\ preConfigModel.web_search
  /\ Len(calls) = 2

\* C25 witness, second case: the same with a last turn made of one image
C25_WitnessImageOnly ==
  /\ outcome.status = "returned"
  /\ lastPromptContent(prompt) = Parts(<<ImagePart(<<"img">>)>>)
  /\ params.web = "true"
  /\ preConfigModel.web_search
  /\ prompts = prompt

\* C26: when the tool sub-run has completed, the tool-call records of
\* toolUsed are exactly the tool calls executed during the sub-run, one
\* record per call in execution order (step order, then call order within a
\* step), each with the call's tool name, arguments and result.
C26_ToolCallsReported ==
  ToolDone => ToolRecords = ExecutedRecords

\* C26 for a sub-run whose first attempt returned: every executed tool call
\* is reported; and in every sub-run the reported calls are the last ones
\* executed
C26_ReportedWithoutRetry ==
  ToolDone =>
    /\ FailedOf("tool") = << >> => ToolRecords = ExecutedRecords
    /\ \E k \in 0..Len(ExecutedRecords) :
         ToolRecords = SubSeq(ExecutedRecords, k + 1, Len(ExecutedRecords))

\* C27, safety part: the input of the tool sub-run has no messages, and its
\* prompt is the latest text alone or the latest text followed by file
\* references; it never holds the data of an image or file part.
C27_NoDataInToolInput ==
  (pc = "built" /\ given = "tool") =>
    /\ answer.messages = << >>
    /\ answer.turns = << >>
    /\ answer.prompt \in {latestTextPrompt(prompt),
                          latestTextPrompt(prompt) \o <<"files: ">>}
    /\ \A i \in 1..Len(answer.files) : answer.files[i].host = RefHost

\* C27: the input of the tool sub-run is the latest text and the list of the
\* file references of the latest turn's non-text parts, one per part in part
\* order, and nothing else.
C27_ToolInput ==
  /\ C27_NoDataInToolInput
  /\ (pc = "built" /\ given = "tool") => answer.files = LastTurnRefs

\* C28: from the moment the multi-model stage starts there is exactly one
\* call per registered model, all of them issued before any has settled;
\* as long as a call is pending generate stays in the stage, with no
\* multi-model turn and no final call; once every call has settled the turn
\* is in the conversation and holds the text of every fulfilled call,
\* whatever the other calls did.
C28_MultiModelConcurrency ==
  Ran("multi") =>
    /\ Len(MultiCalls) = Len(modelList(variant))
    /\ \A i \in 1..Len(MultiCalls) :
         MultiCalls[i].model = modelProvider(variant, modelList(variant)[i])
    /\ multi # NoMulti
    /\ IF AllSettled
       THEN /\ pc \in {"final", "done"}
            /\ Cardinality(MultiTurnAt) = 1
            /\ \A i \in MultiTurnAt : \A m \in modelKeys(variant) :
                 multi[m] = "fulfilled" <=>
                   \E k \in 1..Len(TurnPayload(prompts[i])) :
                     TurnPayload(prompts[i])[k] = m
       ELSE /\ pc = "multi"
            /\ MultiTurnAt = {}
            /\ ~Ran("final")
            /\ outcome.status = "running"

\* C28 witness: every call of the stage is issued and none has settled
C28_WitnessAllPending ==
  /\ pc = "multi"
  /\ Len(MultiCalls) = Len(modelList(variant))
  /\ \A m \in modelKeys(variant) : multi[m] = "pending"

\* C28 witness: the first and the last registered model rejected, the others
\* fulfilled, and the request returned with their texts in the turn
C28_Witness ==
  /\ outcome.status = "returned"
  /\ AllSettled
  /\ multi[modelList(variant)[1]] = "rejected"
  /\ multi[modelList(variant)[Len(modelList(variant))]] = "rejected"
  /\ \A i \in 2..(Len(modelList(variant)) - 1) :
       multi[modelList(variant)[i]] = "fulfilled"
  /\ \A i \in MultiTurnAt :
       Len(TurnPayload(prompts[i])) = Len(modelList(variant)) - 2

\* C29: the messages of a reasoning, multi-model or final call hold one
\* message per turn of the conversation, in the same order and with the same
\* role; a string content is unchanged; a part list keeps exactly its text
\* parts in order in the reasoning and multi-model calls (removeMedia = true)
\* and every part in order in the final call (removeMedia = false).
C29_MessageMap ==
  (pc = "built" /\ given \in {"reasoning", "multi", "final"}) =>
    /\ Len(answer.messages) = Len(prompt)
    /\ \A i \in 1..Len(prompt) :
         /\ answer.messages[i].role = prompt[i].role
         /\ IF prompt[i].content.isString
            THEN answer.messages[i].content = prompt[i].content
            ELSE IF given = "final"
                 THEN KeepsEveryPart(answer.messages[i], prompt[i])
                 ELSE KeepsTextParts(answer.messages[i], prompt[i])

\* C29 witness: the messages of a reasoning call for a last turn made of a
\* text, a file and a text: the two texts are kept
C29_Witness ==
  /\ pc = "built"
  /\ given = "reasoning"
  /\ Len(LastParts) = 3
  /\ LastParts[1].type = "text"
  /\ LastParts[2].type = "file"
  /\ LastParts[3].type = "text"
  /\ Len(answer.messages[2].content.parts) = 2
  /\ answer.messages[2].content.parts[2].text = LastParts[3].data

\* C29 witness, final call: an image and a file are kept with their data
C29_WitnessFinal ==
  /\ pc = "built"
  /\ given = "final"
  /\ Len(LastParts) = 3
  /\ LastParts[2].type = "image"
  /\ LastParts[3].type = "file"
  /\ Len(answer.messages[2].content.parts) = 3
  /\ answer.messages[2].content.parts[2].image = LastParts[2].data
  /\ answer.messages[2].content.parts[3].data = LastParts[3].data

\* C30: every attempt of a fallback-guarded step (planning, tool sub-run,
\* reasoning, final generation) is given the same prompt or conversation,
\* system prompt, schema, tools and sampling parameters as the step's first
\* attempt, only the model being the substitute's; and a step in which an
\* attempt fails leaves the conversation and toolUsed unchanged.
C30_FallbackAttemptFrame ==
  [][ /\ SameButModel'
      /\ Len(failed') > Len(failed) =>
           /\ prompts' = prompts
           /\ callerArray' = callerArray
           /\ toolUsed' = toolUsed ]_vars

\* C30 witness: the reasoning sub-run of a request with an earlier turn and
\* an image failed on its first two candidates, after the web search had
\* inserted its turn, and a third attempt is running
C30_Witness ==
  /\ pc = "reasoning"
  /\ Len(StepCalls("reasoning")) = 3
  /\ Len(FailedOf("reasoning")) = 2
  /\ Len(prompt) = 2
  /\ InsertedAt("web") # {}
  /\ Len(StepCalls("reasoning")[3].input.messages) = 3
  /\ StepCalls("reasoning")[3].model # StepCalls("reasoning")[1].model

\* C31: the final stage makes at most two attempts; its one substitute is
\* the selected model's registry fallback when that is set and is a registry
\* key, otherwise gemini-1.5-flash when the selected model is gpt-4o and
\* gpt-4o otherwise; the substitute is another model than the one of the
\* first attempt, with or without reasoning; and every registry fallback is
\* null or the key of a different registry entry.
C31_FinalCandidateChoice ==
  /\ RegistryFallbacksSound
  /\ Ran("final") =>
       LET attempts == StepCalls("final") IN
       /\ Len(attempts) <= 2
       /\ pc = "final" => fb.item = <<ExpectedSubstitute>>
       /\ Len(attempts) = 2 =>
            /\ attempts[2].model = ExpectedSubstitute
            /\ attempts[2].model # attempts[1].model

\* C31 witness: variant 2, llama-3.3-70b-specdec selected and a reasoning
\* text in use; the first final attempt failed and the second runs against
\* the registry fallback gemini-1.5-flash-8b
C31_Witness ==
  /\ variant = 2
  /\ pc = "final"
  /\ preConfigModel.model = "llama-3.3-70b-specdec"
  /\ Truthy(reasoningText)
  /\ Len(StepCalls("final")) = 2
  /\ StepCalls("final")[2].model = "gemini-1.5-flash-8b"

\* C31 witness, variant 1: the same selection with a reasoning text, where
\* the first attempt runs against gemini-1.5-flash and the second against
\* gpt-4o
C31_WitnessOverride ==
  /\ variant = 1
  /\ pc = "final"
  /\ preConfigModel.model = "llama-3.3-70b-specdec"
  /\ Truthy(reasoningText)
  /\ Len(StepCalls("final")) = 2
  /\ StepCalls("final")[1].model = "gemini-1.5-flash"
  /\ StepCalls("final")[2].model = "gpt-4o"

\* C33: in a returned result the number of files equals the number of
\* ai_image_generation and text_to_speech tool-call records of toolUsed,
\* also when an attempt of the tool sub-run failed after executing tools and
\* the substitute model ran the sub-run again.
C33_FilesMatchRecords ==
  (pc = "done" /\ outcome.status = "returned") =>
    Len(result.files) =
      Len(SelectSeq(result.toolUsed,
                    LAMBDA r : r.type = "tool-call" /\ r.name \in GeneratingTools))


\* when no attempt of the tool sub-run failed, the files of a returned result
\* are as many as its generating tool-call records; in every case they are
\* as many as the generating tool calls that executed
C33_FilesMatchExecuted ==
  (pc = "done" /\ outcome.status = "returned") =>
    /\ Len(result.files) = Len(Generated)
    /\ FailedOf("tool") = << >> =>
         Len(result.files) =
           Len(SelectSeq(result.toolUsed,
                         LAMBDA r : r.type = "tool-call" /\ r.name \in GeneratingTools))

\* C34: a returned result carries reasoningText exactly when the reasoning
\* sub-run ran, and the text then is the one put in the reasoning context
\* turn, also when the extracted reasoning text is empty.
C34_ReasoningTextReturned ==
  (pc = "done" /\ outcome.status = "returned") =>
    /\ result.hasReasoningText <=> Ran("reasoning")
    /\ Ran("reasoning") =>
         \E i \in InsertedAt("reasoning") :
           TurnPayload(prompts[i]) = result.reasoningText

\* a reachable state: the reasoning sub-run returned an empty text, the
\* context turn is there with an empty payload and the returned result has
\* no reasoningText
C34_EmptyTextDropped ==
  /\ pc = "done" /\ outcome.status = "returned"
  /\ Ran("reasoning") /\ FailedOf("reasoning") = << >>
  /\ reasoningText = << >>
  /\ \E i \in InsertedAt("reasoning") : TurnPayload(prompts[i]) = << >>
  /\ ~result.hasReasoningText

\* a returned result with a reasoningText holds the text of the reasoning
\* context turn, and has one whenever the extracted text is not empty
C34_NonEmptyTextReturned ==
  (pc = "done" /\ outcome.status = "returned") =>
    /\ result.hasReasoningText =>
         /\ Ran("reasoning")
         /\ \E i \in InsertedAt("reasoning") :
              TurnPayload(prompts[i]) = result.reasoningText
    /\ (Ran("reasoning") /\ Truthy(reasoningText)) => result.hasReasoningText

\* C35: once the planner has returned a model id that is no registry key, the
\* request makes no remote call other than the planner attempts: no web
\* search, no tool sub-run, no reasoning sub-run and no multi-model call, and
\* no tool executes.
C35_UnknownModelFailsEarly ==
  (Decided /\ ~modelConfigDefined(variant, preConfigModel)) =>
    /\ \A i \in 1..Len(calls) : calls[i].stage = "planner"
    /\ toolLog = << >>

\* with an unknown model id the request fails, and it makes no call of the
\* final generation
C35_UnknownModelNoFinalCall ==
  (Decided /\ ~modelConfigDefined(variant, preConfigModel)) =>
    /\ ~Ran("final")
    /\ pc = "done" => outcome.status = "failed"

\* C36: the tool set offered to the tool sub-run holds the built-in tools and
\* every caller-supplied tool whose name is no built-in's, each name once;
\* under a built-in's name it holds the built-in definition, also when the
\* caller supplied a tool of that name.
C36_ToolSetConstruction ==
  pc = "offered" =>
    LET names(ts) == {ts[i].name : i \in 1..Len(ts)} IN
    /\ names(answer) = toolNames(variant) \cup names(given)
    /\ \A i, j \in 1..Len(answer) : answer[i].name = answer[j].name => i = j
    /\ \A i \in 1..Len(answer) :
         IF answer[i].name \in toolNames(variant)
         THEN answer[i].origin = "built-in"
         ELSE answer[i].origin = "caller"
    /\ names(builtInTools(variant)) = toolNames(variant)

\* C36 witness: the caller supplied an ocr tool and a weather tool; the set
\* offered has the caller's weather and the built-in ocr
C36_Witness ==
  /\ pc = "offered"
  /\ \E i \in 1..Len(given) : given[i].name = "ocr"
  /\ \E i \in 1..Len(given) : given[i].name = "weather"
  /\ \E i \in 1..Len(answer) :
       answer[i] = [name |-> "weather", origin |-> "caller"]
  /\ \E i \in 1..Len(answer) :
       answer[i] = [name |-> "ocr", origin |-> "built-in"]

\* C32: when every remote call eventually settles, every request eventually
\* returns a result or fails; every fallback-guarded step makes at most
\* 1 + N attempts for its N substitutes and attempts no substitute twice, at
\* most one web search call is made, and the multi-model stage makes exactly
\* one call per registry model.
C32_Termination ==
  /\ [](AttemptsBounded /\ Len(WebCalls) <= 1 /\ OneCallPerModel)
  /\ Running ~> Finished

\* C32 witness: a request that ran the web search, the reasoning sub-run
\* with a failed first attempt and the multi-model calls has ended after
\* both attempts of the final generation failed
C32_Witness ==
  /\ Finished
  /\ outcome.status = "failed"
  /\ Len(WebCalls) = 1 /\ Ran("multi")
  /\ Len(StepCalls("reasoning")) = 2
  /\ Len(StepCalls("final")) = 2

\* C32 witness: a request whose tool sub-run executed tools and made a
\* second attempt after the first failed has ended with a result
C32_WitnessReturned ==
  /\ Finished
  /\ outcome.status = "returned"
  /\ Len(StepCalls("tool")) = 2
  /\ Len(FailedOf("tool")) = 1
  /\ Len(toolLog) = 2

====
